---- MODULE Spec2Model ----
(***************************************************************************)
(* Model of the AI orchestration backend of ITI123_Project:                *)
(*   - app/services/ai_service.py : run_chain_with_fallback (tiered        *)
(*     failover), get_static_fallback, parse_llm_response                  *)
(*   - main.py                    : the earlier two-engine                 *)
(*     run_chain_with_fallback                                             *)
(*   - app/services/guardrails.py : GuardrailService                       *)
(*   - app/utils/parsers.py       : extract_clean_json, parse_json_safely  *)
(*   - app/routers/interview.py, app/routers/skills.py, app/main.py :      *)
(*     the streaming generators                                            *)
(*                                                                         *)
(* A Python str is a sequence of tokens.  A token stands for a piece of    *)
(* text the code distinguishes: a <thinking> tag, a brace, a code fence,   *)
(* a whitespace character, a word, or one "key": value member of a JSON    *)
(* object.                                                                 *)
(***************************************************************************)
EXTENDS Integers, Sequences, FiniteSets, TLC

VARIABLES
    variant,    \* which entry point this behaviour runs
    registry,   \* the module-level clients that are not None (ai_service.py:17-19)
    req,        \* the request of the pipeline / the inputs of the call
    pc,         \* position of the streaming generator
    events,     \* the lines the generator has yielded so far
    loc,        \* the generator's local variables
    opc,        \* position of the current run_chain_with_fallback call
    step_name,  \* its step_name argument
    plan,       \* its execution_order
    idx,        \* position of the for loop in execution_order
    olog,       \* what the call has done so far: invocations, fallback calls
    inputs,     \* its inputs argument, as far as the callers bind it
    oresult,    \* the text the call returned
    oexc,       \* the exception the call raised ("none" when it did not)
    fnarg,      \* the text a parser function is applied to on its own
    fncalls,    \* the applications made to it: function, argument, value
    tasks,      \* the requests the event loop serves at the same time
    thread,     \* what holds the event loop's thread: a request, or "free"
    prompts     \* the module-level prompt templates (ai_service.py:86-197)

vars == <<variant, registry, req, pc, events, loc,
          opc, step_name, plan, idx, olog, inputs, oresult, oexc,
          fnarg, fncalls, tasks, thread, prompts>>

orchVars == <<opc, step_name, plan, idx, olog, inputs, oresult, oexc>>
concVars == <<tasks, thread, prompts>>
pipeVars == <<pc, events, loc>>

----------------------------------------------------------------------------
(* Text *)

OPEN  == "<thinking>"
CLOSE == "</thinking>"
WS    == " "
LB    == "{"
RB    == "}"
\* a Markdown code fence, with or without its json tag
FENCE == "<fence>"
WORD  == "w"
\* the two phrases parse_json_safely looks for
REFUSAL  == "I cannot process this request"
REFUSAL2 == "violates our safety"
\* the quote that closes a JSON string, a quote escaped with a backslash
\* inside a JSON string, and that escape with its backslash escaped again
QUOTE   == "<quote>"
ESCQ    == "<backslash quote>"
ESCESCQ == "<backslash backslash backslash quote>"
\* a code fence written as three \u0060 escapes inside a JSON string, and
\* the same with its backslashes escaped
UFENCE  == "<u0060 u0060 u0060>"
EUFENCE == "<backslash u0060 u0060 u0060>"
\* response.content that is not a str (a list of content parts)
NONSTR == "<list>"

IsStr(t) == t # <<NONSTR>>

\* str.strip()
RECURSIVE LStrip(_)
LStrip(s) == IF s # <<>> /\ Head(s) = WS THEN LStrip(Tail(s)) ELSE s

RECURSIVE RStrip(_)
RStrip(s) == IF s # <<>> /\ s[Len(s)] = WS THEN RStrip(SubSeq(s, 1, Len(s) - 1)) ELSE s

Strip(s) == RStrip(LStrip(s))

\* text[:n]
Truncate(s, n) == SubSeq(s, 1, IF n < Len(s) THEN n ELSE Len(s))

Contains(s, tok) == \E i \in 1..Len(s) : s[i] = tok

\* str.find / str.rfind, 0 for "not found" (where Python gives -1)
Find(s, tok) == IF Contains(s, tok)
                THEN CHOOSE i \in 1..Len(s) : s[i] = tok /\ \A j \in 1..(i-1) : s[j] # tok
                ELSE 0

RFind(s, tok) == IF Contains(s, tok)
                 THEN CHOOSE i \in 1..Len(s) : s[i] = tok /\ \A j \in (i+1)..Len(s) : s[j] # tok
                 ELSE 0

\* positions of the leftmost match of <thinking>(.*?)</thinking>: the first
\* opening tag that has a closing tag after it, and the first closing tag
\* after that opening tag
HasThinking(s) == \E i \in 1..Len(s) : s[i] = OPEN /\ \E j \in (i+1)..Len(s) : s[j] = CLOSE

ThinkOpen(s) == CHOOSE i \in 1..Len(s) :
                    /\ s[i] = OPEN
                    /\ \E j \in (i+1)..Len(s) : s[j] = CLOSE
                    /\ \A k \in 1..(i-1) : ~(s[k] = OPEN /\ \E j \in (k+1)..Len(s) : s[j] = CLOSE)

ThinkClose(s) == CHOOSE j \in (ThinkOpen(s)+1)..Len(s) :
                    /\ s[j] = CLOSE
                    /\ \A k \in (ThinkOpen(s)+1)..(j-1) : s[k] # CLOSE

\* re.sub(r'<thinking>.*?</thinking>', '', raw_text): every match, left to right
RECURSIVE RemoveThinking(_)
RemoveThinking(s) ==
    IF HasThinking(s)
    THEN SubSeq(s, 1, ThinkOpen(s) - 1) \o RemoveThinking(SubSeq(s, ThinkClose(s) + 1, Len(s)))
    ELSE s

NoTrace == <<"No thinking trace provided by AI.">>

\* variant of parse_llm_response: without tags the text is returned as it
\* came, not stripped
parse_llm_response_RawFinal(raw_text) ==
    IF HasThinking(raw_text)
    THEN [thinking |-> Strip(SubSeq(raw_text, ThinkOpen(raw_text) + 1, ThinkClose(raw_text) - 1)),
          final    |-> Strip(RemoveThinking(raw_text))]
    ELSE [thinking |-> NoTrace,
          final    |-> raw_text]

\* ai_service.parse_llm_response: (thinking_trace, final_answer)
parse_llm_response(raw_text) ==
    IF HasThinking(raw_text)
    THEN [thinking |-> Strip(SubSeq(raw_text, ThinkOpen(raw_text) + 1, ThinkClose(raw_text) - 1)),
          final    |-> Strip(RemoveThinking(raw_text))]
    ELSE [thinking |-> NoTrace,
          final    |-> Strip(raw_text)]

----------------------------------------------------------------------------
(* JSON values and objects *)

Str(t)  == [kind |-> "str",  text |-> t]
Null    == [kind |-> "null", text |-> <<>>]
Num(n)  == [kind |-> "num",  text |-> <<n>>]
List(l) == [kind |-> "list", text |-> l]

\* the start of a member with a string value: the key, the colon and the
\* opening quote; the value runs up to the next QUOTE
KeyOpen ==
    [ coach_critique   |-> "<coach_critique: quote>",
      rewritten_answer |-> "<rewritten_answer: quote>",
      manager_critique |-> "<manager_critique: quote>" ]

\* one whole "key": value member of a JSON object, as a token
MemberKV ==
    [ cc     |-> [key |-> "coach_critique",   val |-> Str(<<WORD>>)],
      ra     |-> [key |-> "rewritten_answer", val |-> Str(<<WORD>>)],
      ra0    |-> [key |-> "rewritten_answer", val |-> Str(<<>>)],
      ranull |-> [key |-> "rewritten_answer", val |-> Null],
      mk     |-> [key |-> "matched_skills",   val |-> List(<<"skill">>)],
      mi     |-> [key |-> "missing_skills",   val |-> List(<<"gap">>)],
      fb_mc  |-> [key |-> "manager_critique", val |-> Str(<<"High Server Load">>)],
      fb_cc  |-> [key |-> "coach_critique",   val |-> Str(<<"Capacity Limit Reached">>)],
      fb_ra  |-> [key |-> "rewritten_answer", val |-> Str(<<"Please try again in 5 minutes">>)],
      fb_mk  |-> [key |-> "matched_skills",   val |-> List(<<"GEN-PRO-001">>)],
      fb_mi  |-> [key |-> "missing_skills",   val |-> List(<<"ERR-503">>)],
      score0 |-> [key |-> "score",            val |-> Num("0")],
      imp_rephrase |-> [key |-> "improvements",
                        val |-> List(<<"Please rephrase your request.">>)],
      imp_retry    |-> [key |-> "improvements",
                        val |-> List(<<"System: Please try again.">>)],
      mk0    |-> [key |-> "matched_skills",   val |-> List(<<>>)],
      mi0    |-> [key |-> "missing_skills",   val |-> List(<<>>)] ]

EmptyObj == [k \in {} |-> Null]

\* the decoder's reading of the escapes inside a JSON string
UnescapeTok(tok) ==
    CASE tok = ESCQ    -> QUOTE
      [] tok = ESCESCQ -> ESCQ
      [] tok = UFENCE  -> FENCE
      [] tok = EUFENCE -> UFENCE
      [] OTHER         -> tok

Unescape(t) == [i \in 1..Len(t) |-> UnescapeTok(t[i])]

\* the encoder's escaping of a str (quotes and backslashes; a fence is
\* ASCII and written as it is). The strs serialized here hold at most one
\* level of escaping.
EscapeTok(tok) ==
    CASE tok = QUOTE  -> ESCQ
      [] tok = ESCQ   -> ESCESCQ
      [] tok = UFENCE -> EUFENCE
      [] OTHER        -> tok

\* the members read so far put in front of the rest: a key that comes
\* again later wins
PutMember(k, v, rest) ==
    IF ~rest.ok THEN rest
    ELSE [ok |-> TRUE,
          obj |-> [x \in DOMAIN rest.obj \cup {k} |->
                      IF x \in DOMAIN rest.obj THEN rest.obj[x] ELSE v]]

\* the decoder on what stands between the braces of an object
RECURSIVE ParseMembers(_)
ParseMembers(s) ==
    IF s = <<>> THEN [ok |-> TRUE, obj |-> EmptyObj]
    ELSE IF Head(s) = WS THEN ParseMembers(Tail(s))
    ELSE IF Head(s) \in DOMAIN MemberKV
         THEN PutMember(MemberKV[Head(s)].key, MemberKV[Head(s)].val, ParseMembers(Tail(s)))
    ELSE IF (\E k \in DOMAIN KeyOpen : KeyOpen[k] = Head(s)) /\ Contains(s, QUOTE)
         THEN PutMember((CHOOSE k \in DOMAIN KeyOpen : KeyOpen[k] = Head(s)),
                        Str(Unescape(SubSeq(s, 2, Find(s, QUOTE) - 1))),
                        ParseMembers(SubSeq(s, Find(s, QUOTE) + 1, Len(s))))
    ELSE [ok |-> FALSE, obj |-> EmptyObj]

\* json.loads of a text that starts with '{': an object, or JSONDecodeError
JsonValid(s) ==
    /\ Len(s) >= 2
    /\ s[1] = LB
    /\ s[Len(s)] = RB
    /\ ParseMembers(SubSeq(s, 2, Len(s) - 1)).ok

JsonObj(s) == ParseMembers(SubSeq(s, 2, Len(s) - 1)).obj

\* json.dumps of one member
DumpMember(obj, k) ==
    IF obj[k].kind = "str"
    THEN <<KeyOpen[k]>> \o [i \in 1..Len(obj[k].text) |-> EscapeTok(obj[k].text[i])] \o <<QUOTE>>
    ELSE <<CHOOSE tok \in DOMAIN MemberKV : MemberKV[tok] = [key |-> k, val |-> obj[k]]>>

RECURSIVE DumpMembers(_, _)
DumpMembers(obj, ks) ==
    IF ks = <<>> THEN <<>>
    ELSE (IF Head(ks) \in DOMAIN obj THEN DumpMember(obj, Head(ks)) ELSE <<>>)
         \o DumpMembers(obj, Tail(ks))

\* json.dumps(obj)
\* the keys of the objects of this program, in an order to write them in
json_dumps(obj) == <<LB>> \o DumpMembers(obj, (<<"manager_critique", "coach_critique", "rewritten_answer", "score",
                                                "improvements", "matched_skills", "missing_skills">>)) \o <<RB>>

\* dict.get(key, default)
Get(obj, key, default) == IF key \in DOMAIN obj THEN obj[key] ELSE default

\* re.sub of the code-fence pattern with the empty string
RECURSIVE StripFences(_)
StripFences(s) ==
    IF s = <<>> THEN <<>>
    ELSE IF Head(s) = FENCE THEN StripFences(Tail(s))
    ELSE <<Head(s)>> \o StripFences(Tail(s))

\* parsers.extract_clean_json: [none |-> TRUE] is Python's None
extract_clean_json(text) ==
    LET t         == Strip(StripFences(text))
        start_idx == Find(t, LB)
        end_idx   == RFind(t, RB)
        json_str  == SubSeq(t, start_idx, end_idx)
    IN IF start_idx = 0 \/ end_idx = 0 THEN [none |-> TRUE, obj |-> EmptyObj]
       ELSE IF JsonValid(json_str) THEN [none |-> FALSE, obj |-> JsonObj(json_str)]
       ELSE [none |-> TRUE, obj |-> EmptyObj]

\* ai_service.extract_clean_json: the same steps, but its handler of
\* JSONDecodeError logs a name e that nothing binds, which raises NameError
ai_service_extract_clean_json(text) ==
    LET t         == Strip(StripFences(text))
        start_idx == Find(t, LB)
        end_idx   == RFind(t, RB)
        json_str  == SubSeq(t, start_idx, end_idx)
    IN IF start_idx = 0 \/ end_idx = 0
       THEN [none |-> TRUE, exc |-> "none", obj |-> EmptyObj]
       ELSE IF JsonValid(json_str)
       THEN [none |-> FALSE, exc |-> "none", obj |-> JsonObj(json_str)]
       ELSE [none |-> FALSE, exc |-> "NameError", obj |-> EmptyObj]

RawLimit == 500

NoContentObj ==
    [k \in {"coach_critique", "score"} |->
        IF k = "coach_critique" THEN Str(<<"No content generated.">>) ELSE Num("0")]

BlockedObj ==
    [k \in {"coach_critique", "rewritten_answer", "score", "improvements",
            "matched_skills", "missing_skills"} |->
        CASE k = "coach_critique"   -> Str(<<"REQUEST BLOCKED">>)
          [] k = "rewritten_answer" -> Str(<<"Your input was flagged">>)
          [] k = "score"            -> Num("0")
          [] k = "improvements"     -> List(<<"Please rephrase your request.">>)
          [] OTHER                  -> List(<<>>)]

ParseFailedObj(text) ==
    [k \in {"coach_critique", "rewritten_answer", "score", "improvements"} |->
        CASE k = "coach_critique"   -> Str(<<"System Error: Invalid AI Response">>)
          [] k = "rewritten_answer" -> Str(Truncate(text, RawLimit))
          [] k = "score"            -> Num("0")
          [] OTHER                  -> List(<<"System: Please try again.">>)]

\* variant of parse_json_safely: the JSON object is looked for first, the
\* refusal phrases only when none was found
parse_json_safely_ParseFirst(text) ==
    LET a == Find(text, LB)
        b == RFind(text, RB)
    IN IF text = <<>> THEN NoContentObj
       ELSE IF a # 0 /\ b > a /\ JsonValid(SubSeq(text, a, b)) THEN JsonObj(SubSeq(text, a, b))
       ELSE IF Contains(text, REFUSAL) \/ Contains(text, REFUSAL2) THEN BlockedObj
       ELSE ParseFailedObj(text)

\* parsers.parse_json_safely
parse_json_safely(text) ==
    LET a == Find(text, LB)
        b == RFind(text, RB)
    IN IF text = <<>> THEN NoContentObj
       ELSE IF Contains(text, REFUSAL) \/ Contains(text, REFUSAL2) THEN BlockedObj
       ELSE IF a # 0 /\ b > a /\ JsonValid(SubSeq(text, a, b)) THEN JsonObj(SubSeq(text, a, b))
       ELSE ParseFailedObj(text)

----------------------------------------------------------------------------
(* Static fallback *)

SkillMatcherFallback == <<LB, "fb_mk", "fb_mi", RB>>
AgentFallback        == <<LB, "fb_mc", "fb_cc", "fb_ra", RB>>

\* variant of get_static_fallback: the placeholder of the agents is
\* followed by the resume the caller passed in its inputs
get_static_fallback_QuotesInputs(step, ins) ==
    IF step = "Skill Matcher" THEN SkillMatcherFallback
    ELSE IF "resume_text" \in DOMAIN ins THEN AgentFallback \o ins["resume_text"]
    ELSE AgentFallback

\* variant of get_static_fallback: the name is compared with a string no
\* caller passes, so the skill placeholder is never returned
get_static_fallback_WrongName(step, ins) ==
    IF step = "Skill Matching" THEN SkillMatcherFallback ELSE AgentFallback

\* variant of get_static_fallback: the agents are the special case and
\* every other name gets the skill placeholder
get_static_fallback_AgentsOnly(step, ins) ==
    IF step \in {"Manager Agent", "Coach Agent"} THEN AgentFallback ELSE SkillMatcherFallback

\* ai_service.get_static_fallback(step_name, inputs)
get_static_fallback(step, ins) ==
    IF step = "Skill Matcher" THEN SkillMatcherFallback ELSE AgentFallback

----------------------------------------------------------------------------
(* Guardrails *)

\* the confidence score, in hundredths, above which a jailbreak is blocked
JailbreakThreshold == 80

\* the classifier's JSON answer: fields may be absent; err is a failed call
\* or an answer json.loads rejects
ClassifierAnswers ==
    { [err |-> FALSE, has_flag |-> TRUE,  is_jailbreak |-> FALSE, has_score |-> TRUE,  score |-> 10],
      [err |-> FALSE, has_flag |-> TRUE,  is_jailbreak |-> TRUE,  has_score |-> TRUE,  score |-> 95],
      [err |-> FALSE, has_flag |-> TRUE,  is_jailbreak |-> TRUE,  has_score |-> TRUE,  score |-> 80],
      [err |-> FALSE, has_flag |-> TRUE,  is_jailbreak |-> TRUE,  has_score |-> FALSE, score |-> 0],
      [err |-> TRUE,  has_flag |-> FALSE, is_jailbreak |-> FALSE, has_score |-> FALSE, score |-> 0] }

\* variant of detect_jailbreak: a score equal to the threshold blocks too
detect_jailbreak_AtLeast(ans) ==
    IF ans.err THEN FALSE
    ELSE LET score        == IF ans.has_score THEN ans.score ELSE 0
             is_jailbreak == IF ans.has_flag THEN ans.is_jailbreak ELSE FALSE
         IN is_jailbreak /\ score >= JailbreakThreshold

\* GuardrailService.detect_jailbreak: TRUE is "block it"
detect_jailbreak(ans) ==
    IF ans.err THEN FALSE
    ELSE LET score        == IF ans.has_score THEN ans.score ELSE 0
             is_jailbreak == IF ans.has_flag THEN ans.is_jailbreak ELSE FALSE
         IN is_jailbreak /\ score > JailbreakThreshold

\* GuardrailService.check_toxicity: TRUE is "block it"
check_toxicity(ans) ==
    IF ans.err THEN FALSE ELSE ans.flagged

----------------------------------------------------------------------------
(* The failover orchestrator, app/services/ai_service.py *)

Providers == {"Gemini", "OpenAI", "Groq"}
Tier1     == {"Gemini", "OpenAI"}
Tier2     == "Groq"

Failures == {"timeout", "quota", "rejected", "other"}

StepNames == {"Manager Agent", "Coach Agent", "Skill Matcher", "AI"}

\* response.content of a successful invocation
Completions ==
    { <<OPEN, WORD, CLOSE, WS, WORD>>,
      <<OPEN, WORD, CLOSE>>,
      <<WORD>>,
      <<OPEN, WORD, CLOSE, FENCE, LB, "cc", "ra", RB, FENCE>>,
      <<LB, "cc", "ra0", RB>>,
      <<LB, "cc", "ranull", RB>>,
      <<FENCE, LB, "mk", "mi", RB, FENCE>>,
      <<LB, RB>>,
      <<LB, WORD, RB>>,
      <<NONSTR>> }

Invoke(p)      == [op |-> "invoke",   who |-> p,    outcome |-> "pending", text |-> <<>>]
Fallback(step, ins) == [op |-> "fallback", who |-> step, outcome |-> "ok",
                        text |-> get_static_fallback(step, ins)]

\* the log with the outcome of the invocation in flight filled in, and the
\* content of its response when it succeeded
Settle(log, outcome, text) ==
    [log EXCEPT ![Len(log)].outcome = outcome, ![Len(log)].text = text]

\* variant of Tier1Orders: tier1 is filled with both tier-1 names without
\* looking them up in chains
Tier1Orders_Unchecked(reg) ==
    { s \in [1..Cardinality(Tier1) -> Tier1] :
            \A i, j \in DOMAIN s : i # j => s[i] # s[j] }

\* random.shuffle(tier1): every order of the registered tier-1 providers
Tier1Orders(reg) ==
    LET t1 == reg \cap Tier1
    IN { s \in [1..Cardinality(t1) -> t1] :
            \A i, j \in DOMAIN s : i # j => s[i] # s[j] }

\* variant of ExecutionOrder: Groq is put in front of the shuffled tier 1
ExecutionOrder_GroqFirst(tier1, reg) ==
    IF Tier2 \in reg THEN <<Tier2>> \o tier1 ELSE tier1

\* variant of ExecutionOrder: Groq is appended without looking at the registry
ExecutionOrder_AlwaysGroq(tier1, reg) == Append(tier1, Tier2)

\* execution_order: tier 1 as shuffled, then Groq when it is registered
ExecutionOrder(tier1, reg) ==
    IF Tier2 \in reg THEN Append(tier1, Tier2) ELSE tier1

\* variant of RunChainStart: the chains of the plan are started together, as
\* with asyncio.gather, instead of one at a time
RunChainStart_Gather(step, ins) ==
    \E tier1 \in Tier1Orders(registry) :
        LET execution_order == ExecutionOrder(tier1, registry)
        IN /\ step_name' = step
           /\ inputs' = ins
           /\ plan' = execution_order
           /\ oexc' = "none"
           /\ IF execution_order = <<>>
              THEN /\ opc' = "returned"
                   /\ idx' = 0
                   /\ olog' = <<Fallback(step, ins)>>
                   /\ oresult' = get_static_fallback(step, ins)
              ELSE /\ opc' = "invoking"
                   /\ idx' = Len(execution_order)
                   /\ olog' = [i \in 1..Len(execution_order) |-> Invoke(execution_order[i])]
                   /\ oresult' = <<>>

\* run_chain_with_fallback up to its first suspension: the plan is built;
\* with an empty plan the static fallback is returned at once, otherwise
\* the first provider is invoked
RunChainStart(step, ins) ==
    \E tier1 \in Tier1Orders(registry) :
        LET execution_order == ExecutionOrder(tier1, registry)
        IN /\ step_name' = step
           /\ inputs' = ins
           /\ plan' = execution_order
           /\ oexc' = "none"
           /\ IF execution_order = <<>>
              THEN /\ opc' = "returned"
                   /\ idx' = 0
                   /\ olog' = <<Fallback(step, ins)>>
                   /\ oresult' = get_static_fallback(step, ins)
              ELSE /\ opc' = "invoking"
                   /\ idx' = 1
                   /\ olog' = <<Invoke(execution_order[1])>>
                   /\ oresult' = <<>>

UsesAiService == variant \in {"orch", "analyze", "match", "app_analyze"}

\* variant of ProviderSucceeds: the loop goes on after a success and the
\* call returns only after the last provider of the plan
ProviderSucceeds_KeepGoing ==
    /\ UsesAiService
    /\ opc = "invoking"
    /\ \E text \in Completions :
        /\ oresult' = text
        /\ IF idx < Len(plan)
           THEN /\ olog' = Append(Settle(olog, "ok", text), Invoke(plan[idx + 1]))
                /\ idx' = idx + 1
                /\ UNCHANGED opc
           ELSE /\ olog' = Settle(olog, "ok", text)
                /\ opc' = "returned"
                /\ UNCHANGED idx
    /\ UNCHANGED <<step_name, plan, inputs, oexc>>
    /\ UNCHANGED <<concVars, fnarg, fncalls, variant, registry, req, pc, events, loc>>

\* execute_and_log returns response.content: the call returns it
ProviderSucceeds ==
    /\ UsesAiService
    /\ opc = "invoking"
    /\ \E text \in Completions :
        /\ olog' = Settle(olog, "ok", text)
        /\ oresult' = text
    /\ opc' = "returned"
    /\ UNCHANGED <<step_name, plan, idx, inputs, oexc>>
    /\ UNCHANGED <<concVars, fnarg, fncalls, variant, registry, req, pc, events, loc>>

\* variant of ProviderFails: after the last provider has failed,
\* last_exception is raised instead of the static fallback being returned
ProviderFails_Reraise ==
    /\ UsesAiService
    /\ opc = "invoking"
    /\ \E kind \in Failures :
        IF idx < Len(plan)
        THEN /\ olog' = Append(Settle(olog, kind, <<>>), Invoke(plan[idx + 1]))
             /\ idx' = idx + 1
             /\ UNCHANGED <<opc, oresult, oexc>>
        ELSE /\ olog' = Settle(olog, kind, <<>>)
             /\ opc' = "raised"
             /\ oexc' = kind
             /\ UNCHANGED <<idx, oresult>>
    /\ UNCHANGED <<step_name, plan, inputs>>
    /\ UNCHANGED <<concVars, fnarg, fncalls, variant, registry, req, pc, events, loc>>

\* variant of ProviderFails: a timeout ends the loop, the rest of the plan
\* is skipped and the static fallback is returned
ProviderFails_AbortOnTimeout ==
    /\ UsesAiService
    /\ opc = "invoking"
    /\ \E kind \in Failures :
        IF idx < Len(plan) /\ kind # "timeout"
        THEN /\ olog' = Append(Settle(olog, kind, <<>>), Invoke(plan[idx + 1]))
             /\ idx' = idx + 1
             /\ UNCHANGED <<opc, oresult>>
        ELSE /\ olog' = Append(Settle(olog, kind, <<>>), Fallback(step_name, inputs))
             /\ opc' = "returned"
             /\ oresult' = get_static_fallback(step_name, inputs)
             /\ UNCHANGED idx
    /\ UNCHANGED <<step_name, plan, inputs, oexc>>
    /\ UNCHANGED <<concVars, fnarg, fncalls, variant, registry, req, pc, events, loc>>

\* variant of ProviderFails: the failed provider is invoked again, the loop
\* never moves on to the next one
ProviderFails_RetriesForever ==
    /\ UsesAiService
    /\ opc = "invoking"
    /\ \E kind \in Failures : olog' = Settle(olog, kind, <<>>)
    /\ UNCHANGED <<opc, idx, oresult, step_name, plan, inputs, oexc>>
    /\ UNCHANGED <<concVars, fnarg, fncalls, variant, registry, req, pc, events, loc>>

\* variant of ProviderFails: the loop stops one provider short, the last
\* provider of the plan is never invoked
ProviderFails_SkipsLast ==
    /\ UsesAiService
    /\ opc = "invoking"
    /\ \E kind \in Failures :
        IF idx + 1 < Len(plan)
        THEN /\ olog' = Append(Settle(olog, kind, <<>>), Invoke(plan[idx + 1]))
             /\ idx' = idx + 1
             /\ UNCHANGED <<opc, oresult>>
        ELSE /\ olog' = Append(Settle(olog, kind, <<>>), Fallback(step_name, inputs))
             /\ opc' = "returned"
             /\ oresult' = get_static_fallback(step_name, inputs)
             /\ UNCHANGED idx
    /\ UNCHANGED <<step_name, plan, inputs, oexc>>
    /\ UNCHANGED <<concVars, fnarg, fncalls, variant, registry, req, pc, events, loc>>

\* variant of ProviderFails: a provider that timed out is invoked a second
\* time before the loop moves on
ProviderFails_RetriesTimeout ==
    /\ UsesAiService
    /\ opc = "invoking"
    /\ \E kind \in Failures :
        IF kind = "timeout" /\ (Len(olog) = 1 \/ olog[Len(olog) - 1].who # plan[idx])
        THEN /\ olog' = Append(Settle(olog, kind, <<>>), Invoke(plan[idx]))
             /\ UNCHANGED <<idx, opc, oresult>>
        ELSE IF idx < Len(plan)
        THEN /\ olog' = Append(Settle(olog, kind, <<>>), Invoke(plan[idx + 1]))
             /\ idx' = idx + 1
             /\ UNCHANGED <<opc, oresult>>
        ELSE /\ olog' = Append(Settle(olog, kind, <<>>), Fallback(step_name, inputs))
             /\ opc' = "returned"
             /\ oresult' = get_static_fallback(step_name, inputs)
             /\ UNCHANGED idx
    /\ UNCHANGED <<step_name, plan, inputs, oexc>>
    /\ UNCHANGED <<concVars, fnarg, fncalls, variant, registry, req, pc, events, loc>>

\* the except branch of the for loop: the next provider of the plan is
\* invoked; after the last one the static fallback is returned
ProviderFails ==
    /\ UsesAiService
    /\ opc = "invoking"
    /\ \E kind \in Failures :
        IF idx < Len(plan)
        THEN /\ olog' = Append(Settle(olog, kind, <<>>), Invoke(plan[idx + 1]))
             /\ idx' = idx + 1
             /\ UNCHANGED <<opc, oresult>>
        ELSE /\ olog' = Append(Settle(olog, kind, <<>>), Fallback(step_name, inputs))
             /\ opc' = "returned"
             /\ oresult' = get_static_fallback(step_name, inputs)
             /\ UNCHANGED idx
    /\ UNCHANGED <<step_name, plan, inputs, oexc>>
    /\ UNCHANGED <<concVars, fnarg, fncalls, variant, registry, req, pc, events, loc>>

NoInputs == [k \in {} |-> <<>>]

\* a direct call of ai_service.run_chain_with_fallback
CallOrchestrator ==
    /\ variant = "orch"
    /\ opc = "idle"
    /\ \E step \in StepNames : RunChainStart(step, NoInputs)
    /\ UNCHANGED <<concVars, fnarg, fncalls, variant, registry, req, pc, events, loc>>

----------------------------------------------------------------------------
(* The two-engine orchestrator, main.py *)

LegacyPlan == <<"Gemini", "Groq">>

\* the try block: the Gemini chain is invoked
CallLegacy ==
    /\ variant = "legacy"
    /\ opc = "idle"
    /\ \E step \in StepNames : step_name' = step
    /\ inputs' = NoInputs
    /\ plan' = LegacyPlan
    /\ idx' = 1
    /\ olog' = <<Invoke(LegacyPlan[1])>>
    /\ opc' = "invoking"
    /\ oresult' = <<>>
    /\ oexc' = "none"
    /\ UNCHANGED <<concVars, fnarg, fncalls, variant, registry, req, pc, events, loc>>

LegacySucceeds ==
    /\ variant = "legacy"
    /\ opc = "invoking"
    \* StrOutputParser ends the chain: the completion is always a str
    /\ \E text \in { t \in Completions : IsStr(t) } :
        /\ olog' = Settle(olog, "ok", text)
        /\ oresult' = text
    /\ opc' = "returned"
    /\ UNCHANGED <<step_name, plan, idx, inputs, oexc>>
    /\ UNCHANGED <<concVars, fnarg, fncalls, variant, registry, req, pc, events, loc>>

\* both except branches invoke the Groq chain
LegacyGeminiFails ==
    /\ variant = "legacy"
    /\ opc = "invoking"
    /\ idx = 1
    /\ \E kind \in Failures :
        olog' = Append(Settle(olog, kind, <<>>), Invoke(LegacyPlan[2]))
    /\ idx' = 2
    /\ UNCHANGED <<opc, step_name, plan, inputs, oresult, oexc>>
    /\ UNCHANGED <<concVars, fnarg, fncalls, variant, registry, req, pc, events, loc>>

\* Groq fails: under "except ResourceExhausted" its exception propagates as
\* it is, under "except Exception" it is raised again as "Both AI Engines
\* Failed"
LegacyGroqFails ==
    /\ variant = "legacy"
    /\ opc = "invoking"
    /\ idx = 2
    /\ \E kind \in Failures :
        /\ olog' = Settle(olog, kind, <<>>)
        /\ oexc' = IF olog[1].outcome = "quota" THEN kind ELSE "Both AI Engines Failed"
    /\ opc' = "raised"
    /\ UNCHANGED <<step_name, plan, idx, inputs, oresult>>
    /\ UNCHANGED <<concVars, fnarg, fncalls, variant, registry, req, pc, events, loc>>

----------------------------------------------------------------------------
(* The streaming generators *)

Ev(type, step, data, message) ==
    [type |-> type, step |-> step, data |-> data, message |-> message]

StepEv(n)      == Ev("step", n, EmptyObj, "")
StatusEv(n)    == Ev("status", n, EmptyObj, "")
PartialEv(k, t) == Ev("partial_update", 0, [f \in {k} |-> Str(t)], "")
ResultEv(data) == Ev("result", 0, data, "")
\* the except clause of a generator: one error line carrying str(e)
ErrorEv(e)     == Ev("error", 0, EmptyObj, e)

\* variant of OnException: the exception leaves the generator, no line is
\* yielded for it
OnException_Escapes(evs, e) == evs

\* the handler of "except Exception as e" around the body of a generator
OnException(evs, e) == Append(evs, ErrorEv(e))

\* what database.get_detailed_skills returns: the specification of the
\* role, the text for a role without rows, the text after a database error
SkillsTexts == { <<"OFFICIAL SPECIFICATION">>, <<"No specific DB entry">>,
                 <<"Standard industry skills.">> }

\* ai_service.get_prompt(name): the prompt template of that name
get_prompt(name) == name

\* the orchestrator's return value has been taken by the caller
Consumed ==
    /\ opc' = "idle"
    /\ UNCHANGED <<step_name, plan, idx, olog, inputs, oresult, oexc>>

\* man_exhausted is history, not a local of the code: the Manager call went
\* through a non-empty plan and ended in the static fallback
InitLoc == [detailed_skills |-> <<>>, man_thinking |-> <<>>,
            man_feedback |-> <<>>, clean_resume_text |-> <<>>,
            man_exhausted |-> FALSE]

(* app/routers/interview.py, analyze_stream.event_generator *)

\* first line, then the lookup is handed to the executor
AnalyzeStart ==
    /\ variant = "analyze"
    /\ pc = "start"
    /\ events' = Append(events, StepEv(1))
    /\ pc' = "lookup"
    /\ UNCHANGED <<concVars, fnarg, fncalls, variant, registry, req, loc>>
    /\ UNCHANGED orchVars

\* the lookup returned; skill gaps are formatted (m['skill'] raises
\* KeyError for an entry without that key); the Manager call starts
AnalyzeContext ==
    /\ variant = "analyze"
    /\ pc = "lookup"
    /\ \E skills \in SkillsTexts :
        IF req.gaps = "nokey"
        THEN /\ events' = OnException(events, "KeyError")
             /\ pc' = "done"
             /\ UNCHANGED loc
             /\ UNCHANGED orchVars
        ELSE /\ events' = events \o <<StepEv(1), StepEv(2)>>
             /\ loc' = [loc EXCEPT !.detailed_skills = skills]
             /\ pc' = "manager"
             /\ RunChainStart("Manager Agent",
                    [k \in {"template", "detailed_skills"} |->
                        IF k = "template" THEN <<get_prompt("manager_prompt")>> ELSE skills])
    /\ UNCHANGED <<concVars, fnarg, fncalls, variant, registry, req>>

CoachDefault(coach_json_str) ==
    [k \in {"coach_critique", "rewritten_answer"} |->
        IF k = "coach_critique" THEN Str(<<"Could not parse AI response.">>)
        ELSE Str(coach_json_str)]

\* the data of the final line of the analyze stream
AnalyzeResult(man_thinking, man_feedback, coach_thinking, coach_json_str) ==
    LET parsed     == parse_json_safely(coach_json_str)
        coach_data == IF DOMAIN parsed = {} THEN CoachDefault(coach_json_str) ELSE parsed
    IN [k \in {"manager_thinking", "manager_critique", "coach_thinking",
               "coach_critique", "rewritten_answer"} |->
        CASE k = "manager_thinking" -> Str(man_thinking)
          [] k = "manager_critique" -> Str(man_feedback)
          [] k = "coach_thinking"   -> Str(coach_thinking)
          [] k = "coach_critique"   ->
                Get(coach_data, "coach_critique", Str(<<"No critique available.">>))
          [] OTHER                  ->
                Get(coach_data, "rewritten_answer", Str(<<"No answer generated.">>))]

\* variant of AnalyzeManagerDone: the Coach call is given the Manager's text
\* as it was returned, thinking block included
AnalyzeManagerDone_RawCritique ==
    /\ variant = "analyze"
    /\ pc = "manager"
    /\ opc = "returned"
    /\ IF ~IsStr(oresult)
       THEN /\ events' = OnException(events, "TypeError")
            /\ pc' = "done"
            /\ UNCHANGED loc
            /\ Consumed
       ELSE LET p == parse_llm_response(oresult)
            IN /\ events' = events \o <<PartialEv("manager_thinking", p.thinking), StepEv(3)>>
               /\ loc' = [loc EXCEPT !.man_thinking = p.thinking, !.man_feedback = p.final,
                                      !.man_exhausted = plan # <<>> /\ olog[Len(olog)].op = "fallback"]
               /\ pc' = "coach"
               /\ RunChainStart("Coach Agent",
                      [k \in {"template", "manager_critique"} |->
                          IF k = "template" THEN <<get_prompt("coach_prompt")>> ELSE oresult])
    /\ UNCHANGED <<concVars, fnarg, fncalls, variant, registry, req>>

\* the Manager call returned: its text is split (re.search raises TypeError
\* on content that is not a str), the thinking goes out, the Coach call starts
AnalyzeManagerDone ==
    /\ variant = "analyze"
    /\ pc = "manager"
    /\ opc = "returned"
    /\ IF ~IsStr(oresult)
       THEN /\ events' = OnException(events, "TypeError")
            /\ pc' = "done"
            /\ UNCHANGED loc
            /\ Consumed
       ELSE LET p == parse_llm_response(oresult)
            IN /\ events' = events \o <<PartialEv("manager_thinking", p.thinking), StepEv(3)>>
               /\ loc' = [loc EXCEPT !.man_thinking = p.thinking, !.man_feedback = p.final,
                                      !.man_exhausted = plan # <<>> /\ olog[Len(olog)].op = "fallback"]
               /\ pc' = "coach"
               /\ RunChainStart("Coach Agent",
                      [k \in {"template", "manager_critique"} |->
                          IF k = "template" THEN <<get_prompt("coach_prompt")>> ELSE p.final])
    /\ UNCHANGED <<concVars, fnarg, fncalls, variant, registry, req>>

\* variant of AnalyzeCoachDone: the final line is yielded once inside the
\* parsing block and once more after it
AnalyzeCoachDone_TwoResults ==
    /\ variant = "analyze"
    /\ pc = "coach"
    /\ opc = "returned"
    /\ IF ~IsStr(oresult)
       THEN events' = OnException(events, "TypeError")
       ELSE LET p == parse_llm_response(oresult)
                r == ResultEv(AnalyzeResult(loc.man_thinking, loc.man_feedback,
                                            p.thinking, p.final))
            IN events' = events \o <<PartialEv("coach_thinking", p.thinking), r, r>>
    /\ pc' = "done"
    /\ Consumed
    /\ UNCHANGED <<concVars, fnarg, fncalls, variant, registry, req, loc>>

\* the Coach call returned: split, thinking out, JSON parsed, final line
AnalyzeCoachDone ==
    /\ variant = "analyze"
    /\ pc = "coach"
    /\ opc = "returned"
    /\ IF ~IsStr(oresult)
       THEN events' = OnException(events, "TypeError")
       ELSE LET p == parse_llm_response(oresult)
            IN events' = events \o
                  <<PartialEv("coach_thinking", p.thinking),
                    ResultEv(AnalyzeResult(loc.man_thinking, loc.man_feedback,
                                           p.thinking, p.final))>>
    /\ pc' = "done"
    /\ Consumed
    /\ UNCHANGED <<concVars, fnarg, fncalls, variant, registry, req, loc>>

(* app/main.py, analyze_stream.event_generator *)

\* first line, skill gaps formatted, second line, lookup handed to the executor
AppAnalyzeStart ==
    /\ variant = "app_analyze"
    /\ pc = "start"
    /\ IF req.gaps = "nokey"
       THEN /\ events' = OnException(Append(events, StepEv(1)), "KeyError")
            /\ pc' = "done"
       ELSE /\ events' = events \o <<StepEv(1), StepEv(1)>>
            /\ pc' = "lookup"
    /\ UNCHANGED <<concVars, fnarg, fncalls, variant, registry, req, loc>>
    /\ UNCHANGED orchVars

AppAnalyzeContext ==
    /\ variant = "app_analyze"
    /\ pc = "lookup"
    /\ \E skills \in SkillsTexts :
        /\ events' = Append(events, StepEv(2))
        /\ loc' = [loc EXCEPT !.detailed_skills = skills]
        /\ RunChainStart("Manager Agent",
               [k \in {"template", "detailed_skills"} |->
                   IF k = "template" THEN <<"manager_prompt">> ELSE skills])
    /\ pc' = "manager"
    /\ UNCHANGED <<concVars, fnarg, fncalls, variant, registry, req>>

\* the Manager call returned; after the thinking and the step line the
\* argument ai_service.oach_prompt is evaluated: the module has no such
\* attribute, AttributeError
AppAnalyzeManagerDone ==
    /\ variant = "app_analyze"
    /\ pc = "manager"
    /\ opc = "returned"
    /\ IF ~IsStr(oresult)
       THEN /\ events' = OnException(events, "TypeError")
            /\ UNCHANGED loc
       ELSE LET p == parse_llm_response(oresult)
            IN /\ events' = OnException(
                       events \o <<PartialEv("manager_thinking", p.thinking), StepEv(3)>>,
                       "AttributeError")
               /\ loc' = [loc EXCEPT !.man_thinking = p.thinking, !.man_feedback = p.final]
    /\ pc' = "done"
    /\ Consumed
    /\ UNCHANGED <<concVars, fnarg, fncalls, variant, registry, req>>

(* app/routers/skills.py, match_skills.generate_updates *)

\* parsers.redact_pii: the pieces of personal data are replaced by markers
RECURSIVE redact_pii(_)
redact_pii(text) ==
    IF text = <<>> THEN <<>>
    ELSE <<IF Head(text) = "pii" THEN "[REDACTED]" ELSE Head(text)>> \o redact_pii(Tail(text))

ResumeLimit == 5000

\* three status lines around the synchronous lookup, then the resume is
\* cut and redacted (slicing a resume_text that is not a str raises
\* TypeError), then the first sleep
MatchStart ==
    /\ variant = "match"
    /\ pc = "start"
    \* what database.get_match_skills_data returns: the rows of the role, the
    \* default record for a role without rows, [] after a database error
    /\ \E rows \in { <<"row">>, <<"General Competency">>, <<>> } :
        IF ~IsStr(req.resume_text)
        THEN /\ events' = OnException(events \o <<StatusEv(1), StatusEv(1), StatusEv(2)>>,
                                      "TypeError")
             /\ pc' = "done"
             /\ UNCHANGED loc
        ELSE /\ events' = events \o <<StatusEv(1), StatusEv(1), StatusEv(2)>>
             /\ loc' = [loc EXCEPT !.detailed_skills = rows,
                                   !.clean_resume_text =
                                        redact_pii(Truncate(req.resume_text, ResumeLimit))]
             /\ pc' = "sleep1"
    /\ UNCHANGED <<concVars, fnarg, fncalls, variant, registry, req>>
    /\ UNCHANGED orchVars

MatchSleep1 ==
    /\ variant = "match"
    /\ pc = "sleep1"
    /\ events' = Append(events, StatusEv(2))
    /\ pc' = "sleep2"
    /\ UNCHANGED <<concVars, fnarg, fncalls, variant, registry, req, loc>>
    /\ UNCHANGED orchVars

\* variant of MatchSleep2: the resume text of the request is bound into the
\* inputs as it came, cut but not redacted
MatchSleep2_RawResume ==
    /\ variant = "match"
    /\ pc = "sleep2"
    /\ events' = Append(events, StatusEv(2))
    /\ RunChainStart("Skill Matcher",
           [k \in {"template", "detailed_skills", "resume_text"} |->
               CASE k = "template"        -> <<get_prompt("match_skills_prompt")>>
                 [] k = "detailed_skills" -> loc.detailed_skills
                 [] OTHER                 -> Truncate(req.resume_text, ResumeLimit)])
    /\ pc' = "ai"
    /\ UNCHANGED <<concVars, fnarg, fncalls, variant, registry, req, loc>>

\* after the second sleep: status line, inputs, the orchestrator is called
MatchSleep2 ==
    /\ variant = "match"
    /\ pc = "sleep2"
    /\ events' = Append(events, StatusEv(2))
    /\ RunChainStart("Skill Matcher",
           [k \in {"template", "detailed_skills", "resume_text"} |->
               CASE k = "template"        -> <<get_prompt("match_skills_prompt")>>
                 [] k = "detailed_skills" -> loc.detailed_skills
                 [] OTHER                 -> Truncate(loc.clean_resume_text, ResumeLimit)])
    /\ pc' = "ai"
    /\ UNCHANGED <<concVars, fnarg, fncalls, variant, registry, req, loc>>

\* variant of MatchResult: what extract_clean_json returned is sent as it
\* is, None (here the object without keys) and the empty object included
MatchResult_NoDefault(ai_response_str) == extract_clean_json(ai_response_str).obj

\* the data of the final line of the skill-matching stream
MatchResult(ai_response_str) ==
    LET r == extract_clean_json(ai_response_str)
    IN IF r.none \/ DOMAIN r.obj = {} THEN ([k \in {"matched_skills", "missing_skills"} |->
                                             IF k = "matched_skills" THEN List(<<>>)
                                             ELSE List(<<"AI Analysis failed to parse.">>)]) ELSE r.obj

\* the call returned: status line, JSON extracted (re.sub raises TypeError
\* on content that is not a str), final line
MatchAiDone ==
    /\ variant = "match"
    /\ pc = "ai"
    /\ opc = "returned"
    /\ IF ~IsStr(oresult)
       THEN events' = OnException(Append(events, StatusEv(3)), "TypeError")
       ELSE events' = events \o <<StatusEv(3), ResultEv(MatchResult(oresult))>>
    /\ pc' = "done"
    /\ Consumed
    /\ UNCHANGED <<concVars, fnarg, fncalls, variant, registry, req, loc>>

----------------------------------------------------------------------------
(* Specification *)

\* manager_prompt, coach_prompt and match_skills_prompt as the module
\* defines them
PromptTemplates ==
    [n \in {"manager_prompt", "coach_prompt", "match_skills_prompt"} |-> <<get_prompt(n)>>]

\* one request at a time: nothing runs beside it
NoTasks ==
    /\ tasks = <<>>
    /\ thread = "free"
    /\ prompts = PromptTemplates

\* what the two guardrail services would answer on the inputs of a request:
\* harmless, a jailbreak seen with confidence 0.95, toxic, both services down
GuardInputs ==
    { g \in [clf : ClassifierAnswers, mod : ({ [err |-> FALSE, flagged |-> FALSE],
                                              [err |-> FALSE, flagged |-> TRUE],
                                              [err |-> TRUE,  flagged |-> FALSE] })] :
        \/ g.clf.score = 10 /\ ~g.mod.err
        \/ g.clf.score = 95 /\ ~g.mod.err /\ ~g.mod.flagged
        \/ g.clf.err /\ g.mod.err }

\* the requests of an entry point: skill_data.missing absent, with
\* complete entries, or with an entry that has no "skill" key; resume_text
\* a str or not; what the guardrail services would answer on the inputs
Requests(v) ==
    { [gaps |-> g, resume_text |-> r, guard |-> q] :
        g \in (IF v \in {"analyze", "app_analyze"} THEN {"none", "ok", "nokey"} ELSE {"none"}),
        r \in (IF v = "match" THEN {<<"pii", WORD>>, <<NONSTR>>} ELSE {<<WORD>>}),
        q \in GuardInputs }

Init ==
    /\ variant \in {"orch", "legacy", "analyze", "match", "app_analyze"}
    \* init_ai_models leaves a client None when its key is absent or its
    \* constructor fails; main.py builds its two clients at import
    /\ registry \in (IF variant = "legacy" THEN {{"Gemini", "Groq"}} ELSE SUBSET Providers)
    /\ req \in Requests(variant)
    /\ pc = "start"
    /\ events = <<>>
    /\ loc = InitLoc
    /\ opc = "idle"
    /\ step_name = "AI"
    /\ plan = <<>>
    /\ idx = 0
    /\ olog = <<>>
    /\ inputs = NoInputs
    /\ oresult = <<>>
    /\ oexc = "none"
    /\ fnarg = <<>>
    /\ fncalls = <<>>
    /\ NoTasks

Next ==
    \/ CallOrchestrator
    \/ ProviderSucceeds
    \/ ProviderFails
    \/ CallLegacy
    \/ LegacySucceeds
    \/ LegacyGeminiFails
    \/ LegacyGroqFails
    \/ AnalyzeStart
    \/ AnalyzeContext
    \/ AnalyzeManagerDone
    \/ AnalyzeCoachDone
    \/ AppAnalyzeStart
    \/ AppAnalyzeContext
    \/ AppAnalyzeManagerDone
    \/ MatchStart
    \/ MatchSleep1
    \/ MatchSleep2
    \/ MatchAiDone

Spec == Init /\ [][Next]_vars

\* an awaited provider invocation comes back: with content or with an
\* exception
InvocationEnds ==
    \/ ProviderSucceeds
    \/ ProviderFails
    \/ LegacySucceeds
    \/ LegacyGeminiFails
    \/ LegacyGroqFails

\* a skills lookup comes back: through the executor in the analyze
\* streams, inside the first step of the skill-matching stream
LookupEnds ==
    \/ AnalyzeContext
    \/ AppAnalyzeContext
    \/ MatchStart

\* the event loop resumes a coroutine that is ready: the response iterates
\* its generator, a sleep is over, a returned call is taken up
LoopResumes ==
    \/ CallOrchestrator
    \/ CallLegacy
    \/ AnalyzeStart
    \/ AnalyzeManagerDone
    \/ AnalyzeCoachDone
    \/ AppAnalyzeStart
    \/ AppAnalyzeManagerDone
    \/ MatchSleep1
    \/ MatchSleep2
    \/ MatchAiDone

\* the event loop has a coroutine to resume: the guards of the actions of
\* LoopResumes, that is ENABLED <<LoopResumes>>_vars
LoopReady ==
    \/ variant \in {"orch", "legacy"} /\ opc = "idle"
    \/ variant \in {"analyze", "app_analyze"} /\ pc = "start"
    \/ variant \in {"analyze", "app_analyze"} /\ pc = "manager" /\ opc = "returned"
    \/ variant = "analyze" /\ pc = "coach" /\ opc = "returned"
    \/ variant = "match" /\ pc \in {"sleep1", "sleep2"}
    \/ variant = "match" /\ pc = "ai" /\ opc = "returned"

\* the program under an event loop that keeps running, with providers and
\* lookups that always come back.  The last conjunct is WF_vars(LoopResumes)
\* with its enabling condition written out as LoopReady.
LiveSpec ==
    /\ Init
    /\ [][Next]_vars
    /\ WF_vars(InvocationEnds)
    /\ WF_vars(LookupEnds)
    /\ ([]<>~LoopReady \/ []<><<LoopResumes>>_vars)

----------------------------------------------------------------------------
(* The parser functions applied on their own *)

\* the longest raw text parse_llm_response is applied to here
MaxSplitLen == 6

SplitAlphabet == {OPEN, CLOSE, WS, WORD}

\* every text of at most n tokens of an alphabet
Texts(alphabet, n) == UNION {[1..k -> alphabet] : k \in 0..n}

Call(f, a, v) == [fn |-> f, arg |-> a, ret |-> v]

\* no request is running
NoRequest ==
    /\ variant = "none"
    /\ registry = {}
    /\ req = <<>>
    /\ pc = "start"
    /\ events = <<>>
    /\ loc = InitLoc
    /\ opc = "idle"
    /\ step_name = "AI"
    /\ plan = <<>>
    /\ idx = 0
    /\ olog = <<>>
    /\ inputs = NoInputs
    /\ oresult = <<>>
    /\ oexc = "none"
    /\ NoTasks

SplitInit ==
    /\ NoRequest
    /\ fnarg \in Texts(SplitAlphabet, MaxSplitLen)
    /\ fncalls = <<>>

\* thinking, final = parse_llm_response(raw_text)
ApplySplit ==
    /\ fncalls = <<>>
    /\ fncalls' = <<Call("parse_llm_response", fnarg, parse_llm_response(fnarg))>>
    /\ UNCHANGED <<concVars, fnarg, variant, registry, req>>
    /\ UNCHANGED pipeVars
    /\ UNCHANGED orchVars

SplitNext ==
    \/ ApplySplit

SplitSpec == SplitInit /\ [][SplitNext]_vars

\* how many calls of get_static_fallback are made in a row here
MaxFallbackCalls == 3

\* inputs dictionaries of the callers
FallbackInputs ==
    { NoInputs,
      [k \in {"template", "manager_critique"} |-> <<WORD>>],
      [k \in {"template", "resume_text"} |->
          IF k = "template" THEN <<WORD>> ELSE <<"pii", WORD>>] }

FallbackInit ==
    /\ NoRequest
    /\ fnarg = <<>>
    /\ fncalls = <<>>

\* text = get_static_fallback(step_name, inputs)
ApplyStaticFallback ==
    /\ Len(fncalls) < MaxFallbackCalls
    \* the step names the callers pass, a name no caller passes, the empty name
    /\ \E name \in (StepNames \cup {"Resume Check", ""}), ins \in FallbackInputs :
        fncalls' = Append(fncalls, Call("get_static_fallback",
                                        [step_name |-> name, inputs |-> ins],
                                        get_static_fallback(name, ins)))
    /\ UNCHANGED <<concVars, fnarg, variant, registry, req>>
    /\ UNCHANGED pipeVars
    /\ UNCHANGED orchVars

FallbackNext ==
    \/ ApplyStaticFallback

FallbackSpec == FallbackInit /\ [][FallbackNext]_vars

\* the longest text of JSON pieces, and the longest text of prose, the
\* JSON extractors are applied to here
MaxJsonLen  == 5
MaxProseLen == 4

JsonInit ==
    /\ NoRequest
    /\ fnarg \in
          Texts({LB, RB, FENCE, REFUSAL, KeyOpen["rewritten_answer"], QUOTE, ESCQ, UFENCE},
                MaxJsonLen)
          \cup Texts({LB, RB, WS, WORD, REFUSAL, REFUSAL2, "cc"}, MaxProseLen)
    /\ fncalls = <<>>

\* what a call gave: a dict, None, or an exception
Returned(obj) == [none |-> FALSE, exc |-> "none", obj |-> obj]

\* the extractor of that name applied to a text
Extract(f, text) ==
    CASE f = "parsers.extract_clean_json" ->
            [none |-> extract_clean_json(text).none, exc |-> "none",
             obj |-> extract_clean_json(text).obj]
      [] f = "ai_service.extract_clean_json" -> ai_service_extract_clean_json(text)
      [] f = "parsers.parse_json_safely" -> Returned(parse_json_safely(text))

Extractors == {"parsers.extract_clean_json", "ai_service.extract_clean_json",
               "parsers.parse_json_safely"}

FnUnchanged ==
    /\ UNCHANGED <<concVars, fnarg, variant, registry, req>>
    /\ UNCHANGED pipeVars
    /\ UNCHANGED orchVars

\* analysis_result = parsers.extract_clean_json(text)
ApplyExtractCleanJson ==
    /\ fncalls = <<>>
    /\ fncalls' = <<Call("parsers.extract_clean_json", fnarg,
                          Extract("parsers.extract_clean_json", fnarg))>>
    /\ FnUnchanged

\* analysis_result = ai_service.extract_clean_json(text)
ApplyAiServiceExtractCleanJson ==
    /\ fncalls = <<>>
    /\ fncalls' = <<Call("ai_service.extract_clean_json", fnarg,
                          Extract("ai_service.extract_clean_json", fnarg))>>
    /\ FnUnchanged

\* coach_data = parsers.parse_json_safely(text)
ApplyParseJsonSafely ==
    /\ fncalls = <<>>
    /\ fncalls' = <<Call("parsers.parse_json_safely", fnarg,
                          Extract("parsers.parse_json_safely", fnarg))>>
    /\ FnUnchanged

\* the dict a call returned is serialized and given to the same extractor
ExtractAgain ==
    /\ Len(fncalls) = 1
    /\ ~fncalls[1].ret.none
    /\ fncalls[1].ret.exc = "none"
    /\ LET text == json_dumps(fncalls[1].ret.obj)
       IN fncalls' = Append(fncalls, Call(fncalls[1].fn, text, Extract(fncalls[1].fn, text)))
    /\ FnUnchanged

JsonNext ==
    \/ ApplyExtractCleanJson
    \/ ApplyAiServiceExtractCleanJson
    \/ ApplyParseJsonSafely
    \/ ExtractAgain

JsonSpec == JsonInit /\ [][JsonNext]_vars

----------------------------------------------------------------------------
(* The middleware verify_secret_header, app/main.py and main.py *)

\* request.headers.get("X-Poly-Secret") of a request without that header
NoHeader == "<None>"

\* os.getenv("BACKEND_SECRET", "default-insecure-secret")
ApiSecrets == {"default-insecure-secret", "s3cret"}

HttpRequests ==
    [method : {"GET", "POST", "PUT", "DELETE", "OPTIONS"},
     path : {"/", "/docs", "/openapi.json", "/docs/", "/analyze_stream", "/match_skills"},
     secret : ApiSecrets \cup {NoHeader, "", "S3CRET"}]

PublicPaths == {"/", "/docs", "/openapi.json"}

\* variant of verify_secret_header: a request without the header is let
\* through, only a header with a wrong value is rejected
verify_secret_header_MissingHeaderPasses(request, api_secret) ==
    IF request.method = "OPTIONS" THEN [call_next |-> TRUE, returned |-> "response"]
    ELSE IF request.path \in PublicPaths THEN [call_next |-> TRUE, returned |-> "response"]
    ELSE IF request.secret # NoHeader /\ request.secret # api_secret
         THEN [call_next |-> FALSE, returned |-> "401 tuple"]
    ELSE [call_next |-> TRUE, returned |-> "response"]

\* verify_secret_header(request, call_next): whether call_next was awaited,
\* and what the middleware returned
verify_secret_header(request, api_secret) ==
    IF request.method = "OPTIONS" THEN [call_next |-> TRUE, returned |-> "response"]
    ELSE IF request.path \in PublicPaths THEN [call_next |-> TRUE, returned |-> "response"]
    ELSE IF request.secret # api_secret
         THEN [call_next |-> FALSE, returned |-> "401 tuple"]
    ELSE [call_next |-> TRUE, returned |-> "response"]

MiddlewareInit ==
    /\ NoRequest
    /\ fnarg \in [request : HttpRequests, API_SECRET : ApiSecrets]
    /\ fncalls = <<>>

\* a request arrives at the application of app/main.py
AppVerifySecretHeader ==
    /\ fncalls = <<>>
    /\ fncalls' = <<Call("app.main.verify_secret_header", fnarg,
                          verify_secret_header(fnarg.request, fnarg.API_SECRET))>>
    /\ UNCHANGED <<concVars, fnarg, variant, registry, req>>
    /\ UNCHANGED pipeVars
    /\ UNCHANGED orchVars

\* a request arrives at the application of main.py
LegacyVerifySecretHeader ==
    /\ fncalls = <<>>
    /\ fncalls' = <<Call("main.verify_secret_header", fnarg,
                          verify_secret_header(fnarg.request, fnarg.API_SECRET))>>
    /\ UNCHANGED <<concVars, fnarg, variant, registry, req>>
    /\ UNCHANGED pipeVars
    /\ UNCHANGED orchVars

MiddlewareNext ==
    \/ AppVerifySecretHeader
    \/ LegacyVerifySecretHeader

MiddlewareSpec == MiddlewareInit /\ [][MiddlewareNext]_vars

----------------------------------------------------------------------------
(* The skills lookups, app/db/database.py *)

\* the most rows a role has in the database here
MaxRows == 2

\* LIMIT of the two queries
DetailedLimit == 6
MatchLimit    == 8

DbRoles == {"Data Analyst", "Engineer"}

\* the database: the rows of every role; it is not up when connecting or
\* querying raises (no file, no table, locked)
Databases ==
    \* a row of the join: knowledge_list and proficiency may be NULL ("")
    [up : {TRUE}, rows : [DbRoles -> Texts(({ [title |-> "Python", skill_code |-> "S1", proficiency |-> "Advanced", knowledge_list |-> "k"],
                                             [title |-> "SQL",    skill_code |-> "S2", proficiency |-> "",         knowledge_list |-> "k"],
                                             [title |-> "Git",    skill_code |-> "S3", proficiency |-> "Basic",    knowledge_list |-> ""] }), MaxRows)]]
        \cup {[up |-> FALSE, rows |-> [r \in DbRoles |-> <<>>]]}

\* cursor.fetchall() of a query for a role
FetchAll(db, role, limit) ==
    IF role \in DbRoles THEN Truncate(db.rows[role], limit) ELSE <<>>

\* database.get_detailed_skills(role_name)
get_detailed_skills(db, role_name) ==
    IF ~db.up THEN [exc |-> "none", value |-> <<"Standard industry skills.">>]
    ELSE LET rows == FetchAll(db, role_name, DetailedLimit)
         IN IF rows = <<>>
            THEN [exc |-> "none", value |-> <<"Standard industry spec for", role_name,
                                              "(No specific DB entry)">>]
            ELSE [exc |-> "none",
                  value |-> <<"OFFICIAL SPECIFICATION", role_name>> \o
                            [i \in 1..Len(rows) |->
                                [code      |-> rows[i].skill_code,
                                 title     |-> rows[i].title,
                                 level     |-> IF rows[i].proficiency # ""
                                               THEN rows[i].proficiency ELSE "Standard",
                                 knowledge |-> IF rows[i].knowledge_list # ""
                                               THEN rows[i].knowledge_list
                                               ELSE "General application"]]]

\* database.get_match_skills_data(target_role)
get_match_skills_data(db, target_role) ==
    IF ~db.up THEN [exc |-> "none", value |-> <<>>]
    ELSE LET rows == FetchAll(db, target_role, MatchLimit)
             detailed_skills ==
                 [i \in 1..Len(rows) |->
                     [skill |-> rows[i].title,
                      code  |-> rows[i].skill_code,
                      level |-> IF rows[i].proficiency # ""
                                THEN rows[i].proficiency ELSE "Standard",
                      required_knowledge |-> IF rows[i].knowledge_list # ""
                                             THEN rows[i].knowledge_list
                                             ELSE "General competency"]]
         IN [exc |-> "none",
             value |-> IF detailed_skills = <<>> THEN <<([skill |-> "General Competency", code |-> "N/A", level |-> "Standard",
                                                          required_knowledge |-> "General professional skills"])>>
                       ELSE detailed_skills]

LookupInit ==
    /\ NoRequest
    /\ fnarg \in [db : Databases, role : DbRoles \cup {"Astronaut"}]
    /\ fncalls = <<>>

\* detailed_skills = get_detailed_skills(target_role)
ApplyGetDetailedSkills ==
    /\ fncalls = <<>>
    /\ fncalls' = <<Call("get_detailed_skills", fnarg,
                          get_detailed_skills(fnarg.db, fnarg.role))>>
    /\ UNCHANGED <<concVars, fnarg, variant, registry, req>>
    /\ UNCHANGED pipeVars
    /\ UNCHANGED orchVars

\* detailed_skills = get_match_skills_data(target_role)
ApplyGetMatchSkillsData ==
    /\ fncalls = <<>>
    /\ fncalls' = <<Call("get_match_skills_data", fnarg,
                          get_match_skills_data(fnarg.db, fnarg.role))>>
    /\ UNCHANGED <<concVars, fnarg, variant, registry, req>>
    /\ UNCHANGED pipeVars
    /\ UNCHANGED orchVars

LookupNext ==
    \/ ApplyGetDetailedSkills
    \/ ApplyGetMatchSkillsData

LookupSpec == LookupInit /\ [][LookupNext]_vars

----------------------------------------------------------------------------
(* The guardrail checks applied on their own, app/services/guardrails.py *)

\* the longest text a check is applied to here, in characters
MaxInputLen == 52

\* text[:50] in the warning of check_toxicity
SnippetLimit == 50

\* what the classifier call does: it raises (exc), or it answers a JSON
\* object in which either field may be absent; scores are in hundredths
ClassifierReplies ==
    { [err |-> TRUE, exc |-> e, has_flag |-> FALSE, is_jailbreak |-> FALSE,
       has_score |-> FALSE, score |-> 0] : e \in {"APIConnectionError", "JSONDecodeError"} }
    \cup
    { a \in [err : {FALSE}, exc : {"none"}, has_flag : BOOLEAN, is_jailbreak : BOOLEAN,
             has_score : BOOLEAN, score : {0, 79, 80, 81, 100}] :
        /\ ~a.has_flag => ~a.is_jailbreak
        /\ ~a.has_score => a.score = 0 }

\* what the moderation call does: it raises, or it answers flagged together
\* with the categories that are set
ModerationReplies ==
    { [err |-> TRUE, exc |-> "APIConnectionError", flagged |-> FALSE, categories |-> {}],
      [err |-> FALSE, exc |-> "none", flagged |-> FALSE, categories |-> {}],
      [err |-> FALSE, exc |-> "none", flagged |-> TRUE, categories |-> {"harassment"}],
      [err |-> FALSE, exc |-> "none", flagged |-> TRUE, categories |-> {"hate", "self-harm"}] }

\* one call of the logger: level, message, the fields passed as extra
LogRec(level, msg, extra) == [level |-> level, msg |-> msg, extra |-> extra]

\* variant of GuardrailService_detect_jailbreak: only the parse error of the
\* classifier's answer is caught, any other exception leaves the function
GuardrailService_detect_jailbreak_CatchesParseOnly(user_input, ans) ==
    LET scanning == LogRec("info", "Scanning for Jailbreak attempts", [none |-> TRUE])
    IN IF ans.err /\ ans.exc # "JSONDecodeError"
       THEN [exc |-> ans.exc, value |-> FALSE, log |-> <<scanning>>]
       ELSE IF ans.err
       THEN [exc |-> "none", value |-> FALSE,
             log |-> <<scanning, LogRec("error", "Guardrail Error", [e |-> ans.exc])>>]
       ELSE IF detect_jailbreak(ans)
       THEN [exc |-> "none", value |-> TRUE,
             log |-> <<scanning,
                       LogRec("warning", "JAILBREAK BLOCKED",
                              [user_input |-> user_input, score |-> ans.score,
                               type |-> "Adversarial Defense"])>>]
       ELSE [exc |-> "none", value |-> FALSE, log |-> <<scanning>>]

\* GuardrailService.detect_jailbreak(user_input) with what it logs: the
\* except clause turns every exception of the try block into "allow"
GuardrailService_detect_jailbreak(user_input, ans) ==
    LET scanning == LogRec("info", "Scanning for Jailbreak attempts", [none |-> TRUE])
    IN IF ans.err
       THEN [exc |-> "none", value |-> FALSE,
             log |-> <<scanning, LogRec("error", "Guardrail Error", [e |-> ans.exc])>>]
       ELSE IF detect_jailbreak(ans)
       THEN [exc |-> "none", value |-> TRUE,
             log |-> <<scanning,
                       LogRec("warning", "JAILBREAK BLOCKED",
                              [user_input |-> user_input, score |-> ans.score,
                               type |-> "Adversarial Defense"])>>]
       ELSE [exc |-> "none", value |-> FALSE, log |-> <<scanning>>]

\* GuardrailService.check_toxicity(text, source) with what it logs
GuardrailService_check_toxicity(text, source, ans) ==
    IF ans.err
    THEN [exc |-> "none", value |-> FALSE,
          log |-> <<LogRec("error", "Toxicity Check Error", [e |-> ans.exc])>>]
    ELSE IF check_toxicity(ans)
    THEN [exc |-> "none", value |-> TRUE,
          log |-> <<LogRec("warning", "TOXICITY DETECTED",
                           [source |-> source, categories |-> ans.categories,
                            text_snippet |-> Truncate(text, SnippetLimit),
                            type |-> "Content Moderation"])>>]
    ELSE [exc |-> "none", value |-> FALSE, log |-> <<>>]

GuardInit ==
    \* a text of n characters
    /\ fnarg \in [text : { [i \in 1..n |-> "c"] : n \in 0..MaxInputLen },
                  clf : ClassifierReplies,
                  mod : ModerationReplies, source : {"Inbound", "Outbound"}]
    /\ fncalls = <<>>
    /\ NoRequest

Applied(f) == \E i \in 1..Len(fncalls) : fncalls[i].fn = f

ApplyDetectJailbreak ==
    /\ ~Applied("detect_jailbreak")
    /\ fncalls' = Append(fncalls,
           Call("detect_jailbreak", fnarg,
                GuardrailService_detect_jailbreak(fnarg.text, fnarg.clf)))
    /\ UNCHANGED fnarg
    /\ UNCHANGED <<concVars, variant, registry, req, pc, events, loc>>
    /\ UNCHANGED orchVars

ApplyCheckToxicity ==
    /\ ~Applied("check_toxicity")
    /\ fncalls' = Append(fncalls,
           Call("check_toxicity", fnarg,
                GuardrailService_check_toxicity(fnarg.text, fnarg.source, fnarg.mod)))
    /\ UNCHANGED fnarg
    /\ UNCHANGED <<concVars, variant, registry, req, pc, events, loc>>
    /\ UNCHANGED orchVars

GuardNext ==
    \/ ApplyDetectJailbreak
    \/ ApplyCheckToxicity

GuardSpec == GuardInit /\ [][GuardNext]_vars

----------------------------------------------------------------------------
(* Two requests served by one event loop *)

\* the requests in flight
Reqs == {"r1", "r2"}

ConcFailures    == {"timeout", "quota"}

\* a request that has not been started: its generator's position, and the
\* locals of the run_chain_with_fallback call it is in
NewTask(kind) ==
    [kind |-> kind, pc |-> "start", step |-> "AI", inputs |-> NoInputs,
     plan |-> <<>>, idx |-> 0, olog |-> <<>>, result |-> <<>>]

\* the locals of a call of run_chain_with_fallback(prompt_template, inputs,
\* step_name) after its plan is built: with an empty plan the static
\* fallback is returned at once, otherwise the first provider is invoked
CallStarted(t, step, prompt_template, execution_order) ==
    LET ins == [k \in {"template"} |-> prompt_template]
    IN IF execution_order = <<>>
       THEN [t EXCEPT !.pc = "returned", !.step = step, !.inputs = ins,
                      !.plan = execution_order, !.idx = 0,
                      !.olog = <<Fallback(step, ins)>>,
                      !.result = get_static_fallback(step, ins)]
       ELSE [t EXCEPT !.pc = "invoking", !.step = step, !.inputs = ins,
                      !.plan = execution_order, !.idx = 1,
                      !.olog = <<Invoke(execution_order[1])>>,
                      !.result = <<>>]

\* variant of TaskCallStarts: execution_order is one list kept at module
\* level, building it for one call replaces it under every other call
TaskCallStarts_ModuleLevelPlan(r, step, prompt_name) ==
    \E tier1 \in Tier1Orders(registry) :
        LET execution_order == ExecutionOrder(tier1, registry)
        IN tasks' = [x \in Reqs |->
                        IF x = r
                        THEN CallStarted(tasks[x], step, prompts[prompt_name], execution_order)
                        ELSE [tasks[x] EXCEPT !.plan = execution_order]]

\* request r calls run_chain_with_fallback: chains, tier1 and
\* execution_order are locals of the call, the clients and the template
\* are only read
TaskCallStarts(r, step, prompt_name) ==
    \E tier1 \in Tier1Orders(registry) :
        tasks' = [tasks EXCEPT ![r] =
                     CallStarted(@, step, prompts[prompt_name],
                                 ExecutionOrder(tier1, registry))]

\* the variables of the single request stay as they are
OneRequestIdle ==
    /\ UNCHANGED <<variant, req, fnarg, fncalls>>
    /\ UNCHANGED pipeVars
    /\ UNCHANGED orchVars

\* the generator of r runs up to its skills lookup.  analyze_stream hands
\* database.get_detailed_skills to the executor and awaits it;
\* generate_updates calls database.get_match_skills_data itself, on the
\* thread of the event loop
TaskBegins(r) ==
    /\ thread = "free"
    /\ tasks[r].pc = "start"
    /\ tasks' = [tasks EXCEPT ![r].pc = "lookup"]
    /\ thread' = IF tasks[r].kind = "match" THEN r ELSE "free"
    /\ UNCHANGED <<registry, prompts>>
    /\ OneRequestIdle

\* the lookup of r comes back.  In analyze_stream the coroutine is resumed
\* by the loop and calls the Manager; in generate_updates the call returns
\* on the loop's thread, which is given up at the first sleep
TaskLookupReturns(r) ==
    /\ tasks[r].pc = "lookup"
    /\ IF tasks[r].kind = "match"
       THEN /\ thread = r
            /\ thread' = "free"
            /\ tasks' = [tasks EXCEPT ![r].pc = "sleep1"]
       ELSE /\ thread = "free"
            /\ UNCHANGED thread
            /\ TaskCallStarts(r, "Manager Agent", "manager_prompt")
    /\ UNCHANGED <<registry, prompts>>
    /\ OneRequestIdle

\* asyncio.sleep(0.2) is over: the second sleep, then the call
TaskWakes(r) ==
    /\ thread = "free"
    /\ tasks[r].kind = "match"
    /\ \/ /\ tasks[r].pc = "sleep1"
          /\ tasks' = [tasks EXCEPT ![r].pc = "sleep2"]
       \/ /\ tasks[r].pc = "sleep2"
          /\ TaskCallStarts(r, "Skill Matcher", "match_skills_prompt")
    /\ UNCHANGED <<registry, thread, prompts>>
    /\ OneRequestIdle

\* the provider r awaits answers: the call returns its content
TaskProviderSucceeds(r) ==
    /\ thread = "free"
    /\ tasks[r].pc = "invoking"
    \* what a provider does to an invocation here: the interleaving of the two
    \* requests is what matters, one content and two kinds of failure are kept
    /\ \E text \in { <<WORD>> } :
        tasks' = [tasks EXCEPT ![r].olog = Settle(@, "ok", text),
                               ![r].result = text,
                               ![r].pc = "returned"]
    /\ UNCHANGED <<registry, thread, prompts>>
    /\ OneRequestIdle

\* the provider r awaits fails: the next one of r's plan is invoked, after
\* the last one the static fallback is returned
TaskProviderFails(r) ==
    /\ thread = "free"
    /\ tasks[r].pc = "invoking"
    /\ \E kind \in ConcFailures :
        LET t == tasks[r]
        IN IF t.idx < Len(t.plan)
           THEN tasks' = [tasks EXCEPT
                             ![r].olog = Append(Settle(@, kind, <<>>), Invoke(t.plan[t.idx + 1])),
                             ![r].idx = @ + 1]
           ELSE tasks' = [tasks EXCEPT
                             ![r].olog = Append(Settle(@, kind, <<>>),
                                                Fallback(t.step, t.inputs)),
                             ![r].result = get_static_fallback(t.step, t.inputs),
                             ![r].pc = "returned"]
    /\ UNCHANGED <<registry, thread, prompts>>
    /\ OneRequestIdle

\* the generator of r takes the text of its call: analyze_stream goes on to
\* the Coach, otherwise the last line is yielded
TaskResumes(r) ==
    /\ thread = "free"
    /\ tasks[r].pc = "returned"
    /\ IF tasks[r].kind = "analyze" /\ tasks[r].step = "Manager Agent"
       THEN TaskCallStarts(r, "Coach Agent", "coach_prompt")
       ELSE tasks' = [tasks EXCEPT ![r].pc = "done"]
    /\ UNCHANGED <<registry, thread, prompts>>
    /\ OneRequestIdle

\* the clients init_ai_models left and the templates of the module; no
\* request has been started
ConcInit ==
    /\ registry \in SUBSET Providers
    /\ prompts = PromptTemplates
    /\ tasks \in [Reqs -> {NewTask("analyze"), NewTask("match")}]
    /\ thread = "free"
    /\ variant = "none"
    /\ req = <<>>
    /\ pc = "start"
    /\ events = <<>>
    /\ loc = InitLoc
    /\ opc = "idle"
    /\ step_name = "AI"
    /\ plan = <<>>
    /\ idx = 0
    /\ olog = <<>>
    /\ inputs = NoInputs
    /\ oresult = <<>>
    /\ oexc = "none"
    /\ fnarg = <<>>
    /\ fncalls = <<>>

ConcNext ==
    \/ \E r \in Reqs : TaskBegins(r)
    \/ \E r \in Reqs : TaskLookupReturns(r)
    \/ \E r \in Reqs : TaskWakes(r)
    \/ \E r \in Reqs : TaskProviderSucceeds(r)
    \/ \E r \in Reqs : TaskProviderFails(r)
    \/ \E r \in Reqs : TaskResumes(r)

ConcSpec == ConcInit /\ [][ConcNext]_vars

----------------------------------------------------------------------------
(* Properties *)

IsInvoke(e)   == e.op = "invoke"
IsFallback(e) == e.op = "fallback"
IsScan(e)     == e.op = "scan"

\* the provider invocations of the current call, in order
Invocations == SelectSeq(olog, IsInvoke)

\* plan[i] was invoked in the current call and failed
FailedAt(i) == i <= Len(olog) /\ IsInvoke(olog[i]) /\ olog[i].who = plan[i]
               /\ olog[i].outcome \in Failures

\* every provider of a non-empty plan was invoked and failed
AllFailed == plan # <<>> /\ \A i \in 1..Len(plan) : FailedAt(i)

\* C1: whatever the registry and whatever the providers do, a call of
\* run_chain_with_fallback returns and never raises.
C1_NeverRaises == opc # "raised" /\ oexc = "none"

\* C2: when every provider of the plan has failed, the call of
\* ai_service.run_chain_with_fallback has returned, without raising, exactly
\* the static fallback text of its operation name.
C2_AllFailReturnsFallback ==
    (UsesAiService /\ AllFailed) =>
        /\ opc \in {"returned", "idle"}
        /\ oexc = "none"
        /\ oresult = (IF step_name = "Skill Matcher"
                      THEN <<LB, "fb_mk", "fb_mi", RB>>
                      ELSE <<LB, "fb_mc", "fb_cc", "fb_ra", RB>>)

\* C2 witness: a call with all three providers registered, all three failed,
\* has returned.
C2_Witness ==
    /\ variant = "orch" /\ Len(plan) = 3 /\ AllFailed /\ opc = "returned"
    /\ step_name = "Skill Matcher"

\* C3: first success wins. Once an invocation has succeeded it is the last
\* thing the call did: the call has returned that provider's text and no
\* later provider of the plan was invoked; after a tier-1 success Groq was
\* never invoked.
C3_FirstSuccessWins ==
    \A i \in 1..Len(olog) :
        (IsInvoke(olog[i]) /\ olog[i].outcome = "ok") =>
            /\ i = Len(olog)
            /\ opc \in {"returned", "idle"}
            /\ oresult = olog[i].text
            /\ (olog[i].who \in Tier1 => \A j \in 1..Len(olog) : olog[j].who # Tier2)

\* C3 witness: registry {Gemini, OpenAI, Groq}, the first tier-1 provider
\* failed, the second one succeeded, the call has returned.
C3_Witness ==
    /\ variant = "orch" /\ registry = Providers /\ opc = "returned"
    /\ Len(olog) = 2
    /\ olog[1].who = "OpenAI" /\ olog[1].outcome \in Failures
    /\ olog[2].who = "Gemini" /\ olog[2].outcome = "ok"

C5_EmptyRegistryFallback ==
    (UsesAiService /\ registry = {} /\ opc # "idle" ) =>
        /\ opc = "returned"
        /\ oresult = get_static_fallback(step_name, inputs)
        /\ olog = <<Fallback(step_name, inputs)>>
        /\ Invocations = <<>>

\* C5 witness: a call with an empty registry has returned.
C5_Witness ==
    /\ variant = "orch" /\ registry = {} /\ opc = "returned" /\ step_name = "Coach Agent"

\* what the guardrail services decide on the inputs of the request
GuardBlocks == detect_jailbreak(req.guard.clf) \/ check_toxicity(req.guard.mod)

RefusalText == <<REFUSAL>>

\* C6: when the guardrail blocks the inputs of a call, the call returns the
\* refusal text, invokes no provider and does not call the static fallback.
C6_BlockedReturnsRefusal ==
    (UsesAiService /\ GuardBlocks) =>
        /\ \A i \in 1..Len(olog) : ~IsInvoke(olog[i]) /\ ~IsFallback(olog[i])
        /\ (opc = "returned" => oresult = RefusalText)

\* C7: in every call the guardrail scan has run exactly once, before the
\* first provider invocation of the call.
C7_ScanOnceBeforeGeneration ==
    (UsesAiService /\ opc \in {"invoking", "returned"}) =>
        /\ Len(SelectSeq(olog, IsScan)) = 1
        /\ \A i, j \in 1..Len(olog) : (IsScan(olog[i]) /\ IsInvoke(olog[j])) => i < j

Terminal(e) == e.type \in {"result", "error"}

\* C8: a finished stream ends with a terminal line (result or error), and a
\* terminal line is always the last line of its stream: there is exactly
\* one, and nothing follows it.
C8_ExactlyOneTerminal ==
    /\ pc = "done" => (events # <<>> /\ Terminal(events[Len(events)]))
    /\ \A i \in 1..Len(events) : Terminal(events[i]) => (i = Len(events) /\ pc = "done")

\* C8 witness: a skill-matching stream that ended with a result line.
C8_Witness ==
    /\ variant = "match" /\ pc = "done"
    /\ events[Len(events)].type = "result"
    /\ Len(events) = 7

\* a stage of the generator has raised: the skill gaps could not be
\* formatted (context), the resume could not be cut (redaction), the text
\* of a call could not be split or searched (parsing), or the coach prompt
\* attribute does not exist
StageRaised ==
    /\ pc = "done"
    /\ \/ variant \in {"analyze", "app_analyze"} /\ req.gaps = "nokey"
       \/ variant = "match" /\ ~IsStr(req.resume_text)
       \/ variant \in {"analyze", "app_analyze", "match"} /\ ~IsStr(oresult)
       \/ variant = "app_analyze"

NumOfType(t) == Cardinality({i \in 1..Len(events) : events[i].type = t})

\* C9: when a stage of a generator has raised, the stream ends with an
\* error line, it has exactly one error line and no result line.
C9_ExceptionBecomesError ==
    StageRaised =>
        /\ events # <<>>
        /\ events[Len(events)].type = "error"
        /\ events[Len(events)].message \in {"KeyError", "TypeError", "AttributeError"}
        /\ NumOfType("error") = 1
        /\ NumOfType("result") = 0

\* C9 witness: the Coach stage of the analyze stream got content that is
\* not a str, after a Manager stage that went through.
C9_Witness ==
    /\ variant = "analyze" /\ pc = "done" /\ step_name = "Coach Agent"
    /\ ~IsStr(oresult)
    /\ events[Len(events)] = ErrorEv("TypeError")

\* the kind of a line: its type, with the step id or the key it carries
Label(e) ==
    CASE e.type \in {"step", "status"} -> <<e.type, e.step>>
      [] e.type = "partial_update"     -> <<e.type, CHOOSE k \in DOMAIN e.data : TRUE>>
      [] OTHER                         -> <<e.type, 0>>

\* the labels of the lines, consecutive lines of the same label taken once
RECURSIVE Collapse(_)
Collapse(evs) ==
    IF evs = <<>> THEN <<>>
    ELSE IF Len(evs) >= 2 /\ Label(evs[1]) = Label(evs[2]) THEN Collapse(Tail(evs))
    ELSE <<Label(evs[1])>> \o Collapse(Tail(evs))

NonEmptyText(v) == v.kind = "str" /\ v.text # <<>>

\* C10: an analyze stream that finished without an exception consists of
\* step context, step manager, partial_update manager_thinking, step coach,
\* partial_update coach_thinking and one result, in this order, and the
\* manager_critique and rewritten_answer of the result are non-empty.
C10_HappyPathEvents ==
    (variant = "analyze" /\ pc = "done" /\ NumOfType("error") = 0) =>
        /\ Collapse(events) = << <<"step", 1>>, <<"step", 2>>,
                                 <<"partial_update", "manager_thinking">>,
                                 <<"step", 3>>,
                                 <<"partial_update", "coach_thinking">>,
                                 <<"result", 0>> >>
        /\ NumOfType("result") = 1
        /\ NonEmptyText(events[Len(events)].data["manager_critique"])
        /\ NonEmptyText(events[Len(events)].data["rewritten_answer"])

----------------------------------------------------------------------------
(* The analyze pipeline under total provider failure, and its stage order *)

\* an analyze request has finished and every provider of the plan failed in
\* its Manager call and in its Coach call
AnalyzeAllFailed ==
    /\ variant = "analyze" /\ pc = "done" /\ step_name = "Coach Agent"
    /\ loc.man_exhausted
    /\ AllFailed

\* C11: when every provider fails during an analyze request the stream ends
\* with a result line and has no error line, and manager_critique,
\* coach_critique and rewritten_answer of the result are the placeholder
\* texts of the static fallback.
C11_AllFailResultIsFallback ==
    AnalyzeAllFailed =>
        /\ events[Len(events)].type = "result"
        /\ NumOfType("error") = 0
        /\ events[Len(events)].data["manager_critique"] = Str(<<"High Server Load">>)
        /\ events[Len(events)].data["coach_critique"] = Str(<<"Capacity Limit Reached">>)
        /\ events[Len(events)].data["rewritten_answer"] = Str(<<"Please try again in 5 minutes">>)

\* the Coach call of an analyze request starts in this step
CoachStarts ==
    variant = "analyze" /\ step_name # "Coach Agent" /\ step_name' = "Coach Agent"

\* C12: the Coach call starts only when the Manager call has returned, in the
\* step that splits the Manager's text and yields the manager_thinking line,
\* and the manager_critique it is given is the final answer of that split;
\* while the Coach call exists the manager_thinking line is in the stream.
C12_CoachAfterManager ==
    /\ [][CoachStarts =>
            /\ pc = "manager" /\ step_name = "Manager Agent" /\ opc = "returned"
            /\ inputs'["manager_critique"] = parse_llm_response(oresult).final
            /\ \E i \in (Len(events) + 1)..Len(events') :
                    events'[i] = PartialEv("manager_thinking",
                                           parse_llm_response(oresult).thinking)
            /\ \A i \in 1..Len(events) :
                    events[i].type # "partial_update"]_vars
    /\ []((variant = "analyze" /\ step_name = "Coach Agent") =>
            /\ pc \in {"coach", "done"}
            /\ \E i \in 1..Len(events) :
                    events[i] = PartialEv("manager_thinking", loc.man_thinking)
            /\ inputs["manager_critique"] = loc.man_feedback)

\* C12 witness: the Coach call is under way on the answer <<WORD>> that was
\* split off a Manager text with a thinking block.
C12_Witness ==
    /\ variant = "analyze" /\ pc = "coach" /\ opc = "invoking"
    /\ step_name = "Coach Agent"
    /\ loc.man_thinking = <<WORD>>
    /\ inputs["manager_critique"] = <<WORD>>

----------------------------------------------------------------------------
(* parse_llm_response *)

\* parse_llm_response has been applied to fnarg
SplitDone == fncalls # <<>> /\ fncalls[1].fn = "parse_llm_response"

\* C13: for every non-empty raw text the final answer of the split is
\* non-empty, a text that is only a reasoning block or only whitespace
\* included.
C13_FinalNeverEmpty ==
    (SplitDone /\ fnarg # <<>>) => fncalls[1].ret.final # <<>>

\* t is s without its leading and trailing whitespace
IsTrimOf(t, s) ==
    \E a, b \in 0..Len(s) :
        /\ a + b <= Len(s)
        /\ t = SubSeq(s, a + 1, Len(s) - b)
        /\ \A k \in 1..a : s[k] = WS
        /\ \A k \in (Len(s) - b + 1)..Len(s) : s[k] = WS
        /\ t = <<>> \/ (t[1] # WS /\ t[Len(t)] # WS)

\* an opening tag with a closing tag after it
Balanced(s) == \E i, j \in 1..Len(s) : i < j /\ s[i] = OPEN /\ s[j] = CLOSE

\* i, j delimit the first reasoning region of s: the first opening tag that
\* has a closing tag after it, and the first closing tag after it
IsFirstPair(s, i, j) ==
    /\ i \in 1..Len(s) /\ j \in 1..Len(s) /\ i < j
    /\ s[i] = OPEN /\ s[j] = CLOSE
    /\ \A k \in 1..(i - 1) : s[k] # OPEN
    /\ \A k \in (i + 1)..(j - 1) : s[k] # CLOSE

\* C14: for a raw text with a balanced pair of delimiters the reasoning is
\* the trimmed content of the first pair and the final answer is the raw
\* text with that one region removed, trimmed, also when the text has more
\* than one pair.
C14_BalancedPairSplit ==
    SplitDone =>
        \A i, j \in 1..Len(fnarg) :
            IsFirstPair(fnarg, i, j) =>
                /\ IsTrimOf(fncalls[1].ret.thinking, SubSeq(fnarg, i + 1, j - 1))
                /\ IsTrimOf(fncalls[1].ret.final,
                            SubSeq(fnarg, 1, i - 1) \o SubSeq(fnarg, j + 1, Len(fnarg)))

\* C15: when no opening tag has a closing tag after it (no tag, only an
\* opening tag, only a closing tag, a closing tag before the opening one)
\* the split returns the no-trace sentinel and the whole raw text, trimmed.
C15_UnbalancedIsWholeText ==
    (SplitDone /\ ~Balanced(fnarg)) =>
        /\ fncalls[1].ret.thinking = <<"No thinking trace provided by AI.">>
        /\ IsTrimOf(fncalls[1].ret.final, fnarg)

\* C15 witness: a closing tag before the opening one, and a trailing blank
C15_Witness ==
    /\ SplitDone
    /\ fnarg = <<CLOSE, WORD, OPEN, WS>>
    /\ fncalls[1].ret.final = <<CLOSE, WORD, OPEN>>

\* a note that stands in for a reasoning trace: one piece of text that is
\* not made of the tokens of the raw text
IsSentinel(t) == Len(t) = 1 /\ t[1] \notin SplitAlphabet

\* C16: when removing the reasoning region leaves nothing, the split returns
\* the reasoning content as the final answer and a sentinel note as the
\* reasoning.
C16_EmptyFinalPromotesReasoning ==
    SplitDone =>
        \A i, j \in 1..Len(fnarg) :
            (/\ IsFirstPair(fnarg, i, j)
             /\ IsTrimOf(<<>>, SubSeq(fnarg, 1, i - 1) \o SubSeq(fnarg, j + 1, Len(fnarg)))) =>
                /\ IsTrimOf(fncalls[1].ret.final, SubSeq(fnarg, i + 1, j - 1))
                /\ IsSentinel(fncalls[1].ret.thinking)

----------------------------------------------------------------------------
(* JSON extraction *)

\* a JSON extractor has been applied to fnarg
JsonDone == fncalls # <<>> /\ fncalls[1].fn \in Extractors

\* the object carries a human-readable message
HasMessage(obj) ==
    /\ "coach_critique" \in DOMAIN obj
    /\ obj["coach_critique"].kind = "str"
    /\ obj["coach_critique"].text # <<>>

\* the text from the first '{' to the last '}', code fences stripped
Braced(text) ==
    LET t == Strip(StripFences(text))
    IN IF Find(t, LB) = 0 \/ RFind(t, RB) = 0 THEN <<>>
       ELSE SubSeq(t, Find(t, LB), RFind(t, RB))

\* that text parses as a JSON object
HoldsObject(text) == JsonValid(Braced(text))

\* C17: for every input text JSON extraction returns an object, never None
\* and never an exception; when the text holds no JSON object (no braces,
\* the first '{' after the last '}', malformed content) the object is a
\* default that carries a message.
C17_AlwaysDefaultObject ==
    JsonDone =>
        /\ ~fncalls[1].ret.none
        /\ fncalls[1].ret.exc = "none"
        /\ ~HoldsObject(fnarg) => HasMessage(fncalls[1].ret.obj)

\* C18: when the text from the first '{' to the last '}' (fences stripped)
\* parses as a JSON object, extraction returns exactly that object, whatever
\* stands around it or inside its string values.
C18_EmbeddedObjectReturned ==
    (JsonDone /\ HoldsObject(fnarg)) =>
        fncalls[1].ret = Returned(JsonObj(Braced(fnarg)))

\* the text is the refusal message of the guardrail: it has one of the two
\* phrases the message is made of
IsRefusal(text) == \E i \in 1..Len(text) : text[i] \in {REFUSAL, REFUSAL2}

\* C19: on the guardrail refusal message parse_json_safely returns the
\* blocked object, whether or not the text holds a JSON object, and the
\* blocked object is not the object returned for a parse failure.
C19_RefusalGivesBlockedObject ==
    \A i \in 1..Len(fncalls) :
        (fncalls[i].fn = "parsers.parse_json_safely" /\ IsRefusal(fncalls[i].arg)) =>
            /\ fncalls[i].ret.exc = "none" /\ ~fncalls[i].ret.none
            /\ DOMAIN fncalls[i].ret.obj =
                   {"coach_critique", "rewritten_answer", "score", "improvements",
                    "matched_skills", "missing_skills"}
            /\ fncalls[i].ret.obj["coach_critique"] = Str(<<"REQUEST BLOCKED">>)
            /\ fncalls[i].ret.obj["matched_skills"] = List(<<>>)
            /\ fncalls[i].ret.obj["missing_skills"] = List(<<>>)
            /\ fncalls[i].ret.obj # ParseFailedObj(fncalls[i].arg)
            /\ fncalls[i].ret.obj["coach_critique"] #
                   Str(<<"System Error: Invalid AI Response">>)

\* C19 witness: the refusal phrase in front of a well-formed JSON object;
\* the blocked object came back
C19_Witness ==
    /\ Len(fncalls) = 1
    /\ fncalls[1].fn = "parsers.parse_json_safely"
    /\ fnarg = <<REFUSAL2, LB, "cc", RB>>
    /\ fncalls[1].ret.obj["coach_critique"] = Str(<<"REQUEST BLOCKED">>)

\* C20: extraction is idempotent: when a text gave an object, extracting
\* from the serialization of that object gives the same object.
C20_ExtractIdempotent ==
    Len(fncalls) = 2 => fncalls[2].ret = fncalls[1].ret

\* the text has an opening and a closing brace, and what stands from the
\* first '{' to the last '}' is not a JSON object
ParseFails(text) ==
    LET t == Strip(StripFences(text))
    IN Find(t, LB) # 0 /\ RFind(t, RB) # 0 /\ ~JsonValid(Braced(text))

\* C21: a parse failure is never raised by a JSON extraction function: on a
\* text whose braces hold no JSON object every extractor returns a value.
C21_ParseFailureNotRaised ==
    \A i \in 1..Len(fncalls) :
        (fncalls[i].fn \in Extractors /\ ParseFails(fncalls[i].arg)) =>
            fncalls[i].ret.exc = "none"

----------------------------------------------------------------------------
(* The data of the result lines *)

\* C22: in every result line of the analyze stream coach_critique and
\* rewritten_answer are text, never null, whatever the Coach returned
\* (unparseable, refused, a field missing, a field null).
C22_CoachFieldsNeverNull ==
    variant = "analyze" =>
        \A i \in 1..Len(events) :
            events[i].type = "result" =>
                /\ events[i].data["coach_critique"].kind = "str"
                /\ events[i].data["rewritten_answer"].kind = "str"

\* C23: in every result line of the skill-matching stream the data is an
\* object with at least one key; when the text of the model holds no JSON
\* object, a malformed one or an empty one, the data has an empty
\* matched_skills list and a missing_skills list of one entry.
C23_MatchDataNeverEmpty ==
    (variant = "match" /\ pc = "done") =>
        \A i \in 1..Len(events) :
            events[i].type = "result" =>
                /\ DOMAIN events[i].data # {}
                /\ (~HoldsObject(oresult) \/ JsonObj(Braced(oresult)) = EmptyObj) =>
                        /\ DOMAIN events[i].data = {"matched_skills", "missing_skills"}
                        /\ events[i].data["matched_skills"] = List(<<>>)
                        /\ events[i].data["missing_skills"].kind = "list"
                        /\ Len(events[i].data["missing_skills"].text) = 1

\* C23 witness: the model returned braces around something that is not
\* JSON, and the stream ended with the default object
C23_Witness ==
    /\ variant = "match" /\ pc = "done"
    /\ oresult = <<LB, WORD, RB>>
    /\ events[Len(events)].type = "result"
    /\ events[Len(events)].data["matched_skills"] = List(<<>>)

----------------------------------------------------------------------------
(* get_static_fallback *)

\* C24: get_static_fallback is a function of the operation name alone: two
\* calls with the same name returned the same text, whatever inputs they
\* were given and whatever calls were made in between.
C24_FallbackDeterministic ==
    \A i, j \in 1..Len(fncalls) :
        (/\ fncalls[i].fn = "get_static_fallback"
         /\ fncalls[j].fn = "get_static_fallback"
         /\ fncalls[i].arg.step_name = fncalls[j].arg.step_name) =>
            fncalls[i].ret = fncalls[j].ret

\* C24 witness: two calls for the Coach with different inputs, a call for
\* the Skill Matcher between them, and the same text both times
C24_Witness ==
    /\ Len(fncalls) = 3
    /\ fncalls[1].arg.step_name = "Coach Agent"
    /\ fncalls[2].arg.step_name = "Skill Matcher"
    /\ fncalls[3].arg.step_name = "Coach Agent"
    /\ fncalls[1].arg.inputs # fncalls[3].arg.inputs
    /\ "resume_text" \in DOMAIN fncalls[3].arg.inputs
    /\ fncalls[1].ret = fncalls[3].ret
    /\ fncalls[1].ret # fncalls[2].ret

\* the calls of get_static_fallback made so far
FallbackCalls == {i \in 1..Len(fncalls) : fncalls[i].fn = "get_static_fallback"}

\* the text is a JSON object and nothing else
IsJsonText(text) == JsonValid(text)

\* C25 as the specification states it: for "Skill Matcher" the placeholder
\* has an empty matched_skills list and one missing_skills entry.
C25_SkillFallbackEmptyMatches ==
    \A i \in FallbackCalls :
        fncalls[i].arg.step_name = "Skill Matcher" =>
            /\ IsJsonText(fncalls[i].ret)
            /\ JsonObj(fncalls[i].ret)["matched_skills"] = List(<<>>)
            /\ Len(JsonObj(fncalls[i].ret)["missing_skills"].text) = 1

\* C25, amended: for "Skill Matcher" the placeholder is a JSON object of
\* the two keys matched_skills and missing_skills; matched_skills holds one
\* generic entry (GEN-PRO-001) and missing_skills one explanatory gap entry
\* (ERR-503).
C25_SkillFallbackOneAndOne ==
    \A i \in FallbackCalls :
        fncalls[i].arg.step_name = "Skill Matcher" =>
            /\ IsJsonText(fncalls[i].ret)
            /\ DOMAIN JsonObj(fncalls[i].ret) = {"matched_skills", "missing_skills"}
            /\ JsonObj(fncalls[i].ret)["matched_skills"] = List(<<"GEN-PRO-001">>)
            /\ JsonObj(fncalls[i].ret)["missing_skills"] = List(<<"ERR-503">>)

\* C25 witness: the placeholder of the Skill Matcher has been returned, for
\* a call that passed a resume
C25_Witness ==
    /\ Len(fncalls) = 1
    /\ fncalls[1].fn = "get_static_fallback"
    /\ fncalls[1].arg.step_name = "Skill Matcher"
    /\ "resume_text" \in DOMAIN fncalls[1].arg.inputs
    /\ Len(JsonObj(fncalls[1].ret)["matched_skills"].text) = 1

\* the names get_static_fallback is called with by the pipelines
KnownNames == {"Skill Matcher", "Manager Agent", "Coach Agent"}

\* C26 as the specification states it: for a name that is not a known one
\* the placeholder is a JSON object of exactly two keys, a critique text
\* and a rewritten text.
C26_UnknownNameTwoKeys ==
    \A i \in FallbackCalls :
        fncalls[i].arg.step_name \notin KnownNames =>
            /\ IsJsonText(fncalls[i].ret)
            /\ Cardinality(DOMAIN JsonObj(fncalls[i].ret)) = 2
            /\ "rewritten_answer" \in DOMAIN JsonObj(fncalls[i].ret)
            /\ \E k \in {"coach_critique", "manager_critique"} :
                    k \in DOMAIN JsonObj(fncalls[i].ret)

\* C26, amended: for a name that is not a known one the placeholder is a
\* JSON object of exactly three keys, manager_critique, coach_critique and
\* rewritten_answer, each a non-empty text: the same placeholder the two
\* agents get.
C26_UnknownNameThreeKeys ==
    \A i \in FallbackCalls :
        fncalls[i].arg.step_name \notin KnownNames =>
            /\ IsJsonText(fncalls[i].ret)
            /\ DOMAIN JsonObj(fncalls[i].ret) =
                   {"manager_critique", "coach_critique", "rewritten_answer"}
            /\ \A k \in DOMAIN JsonObj(fncalls[i].ret) :
                   NonEmptyText(JsonObj(fncalls[i].ret)[k])
            /\ \A j \in FallbackCalls :
                   fncalls[j].arg.step_name \in {"Manager Agent", "Coach Agent"} =>
                       fncalls[j].ret = fncalls[i].ret

\* C26 witness: a name no pipeline uses, after a call for the Manager
C26_Witness ==
    /\ Len(fncalls) = 2
    /\ fncalls[1].arg.step_name = "Manager Agent"
    /\ fncalls[2].arg.step_name = "Resume Check"
    /\ Cardinality(DOMAIN JsonObj(fncalls[2].ret)) = 3

----------------------------------------------------------------------------
(* verify_secret_header *)

\* C27: a request whose X-Poly-Secret header is not the configured secret
\* does not reach a handler (call_next is not awaited), unless its method
\* is OPTIONS or its path is "/", "/docs" or "/openapi.json"; a request
\* with the configured secret is always forwarded.
C27_SecretHeaderGate ==
    \A i \in 1..Len(fncalls) :
        fncalls[i].fn \in {"app.main.verify_secret_header", "main.verify_secret_header"} =>
            LET request == fncalls[i].arg.request
                secret  == fncalls[i].arg.API_SECRET
                exempt  == \/ request.method = "OPTIONS"
                           \/ request.path \in {"/", "/docs", "/openapi.json"}
            IN /\ (request.secret # secret /\ ~exempt) => ~fncalls[i].ret.call_next
               /\ request.secret = secret => fncalls[i].ret.call_next
               /\ exempt => fncalls[i].ret.call_next

\* C27 witness: a POST to /analyze_stream without the header was stopped
C27_Witness ==
    /\ Len(fncalls) = 1
    /\ fncalls[1].fn = "app.main.verify_secret_header"
    /\ fnarg.request = [method |-> "POST", path |-> "/analyze_stream", secret |-> NoHeader]
    /\ ~fncalls[1].ret.call_next

----------------------------------------------------------------------------
(* The skills lookups *)

\* C28: get_detailed_skills and get_match_skills_data never raise; for a
\* role without rows and for a failing database they return a usable
\* fallback value: a non-empty text, respectively a non-empty list of skill
\* records.
C28_LookupsAlwaysUsable ==
    \A i \in 1..Len(fncalls) :
        fncalls[i].fn \in {"get_detailed_skills", "get_match_skills_data"} =>
            /\ fncalls[i].ret.exc = "none"
            /\ Len(fncalls[i].ret.value) >= 1
            /\ fncalls[i].fn = "get_match_skills_data" =>
                   \A k \in 1..Len(fncalls[i].ret.value) :
                       DOMAIN fncalls[i].ret.value[k] =
                           {"skill", "code", "level", "required_knowledge"}

\* a call of ai_service.run_chain_with_fallback has built its plan
PlanBuilt == UsesAiService /\ olog # <<>>

\* the plan without its tier-2 element
Tier1Part ==
    IF plan # <<>> /\ plan[Len(plan)] = Tier2
    THEN SubSeq(plan, 1, Len(plan) - 1)
    ELSE plan

\* C29: in every plan built by run_chain_with_fallback Groq, when it is
\* registered, is the last element and occurs nowhere else; the part before
\* it is a permutation of the registered tier-1 providers; and Groq is
\* invoked only after every registered tier-1 provider was invoked and
\* failed earlier in the same call.
C29_Tier2LastAfterTier1 ==
    PlanBuilt =>
        /\ Tier2 \in registry => plan # <<>> /\ plan[Len(plan)] = Tier2
        /\ Tier2 \notin registry => \A i \in 1..Len(plan) : plan[i] # Tier2
        /\ Len(Tier1Part) = Cardinality(registry \cap Tier1)
        /\ { Tier1Part[i] : i \in 1..Len(Tier1Part) } = registry \cap Tier1
        /\ \A i \in 1..Len(olog) :
               (IsInvoke(olog[i]) /\ olog[i].who = Tier2) =>
                   \A p \in registry \cap Tier1 :
                       \E j \in 1..(i - 1) :
                           /\ IsInvoke(olog[j])
                           /\ olog[j].who = p
                           /\ olog[j].outcome \in Failures

\* C29 witness: all three providers registered, OpenAI shuffled to the
\* front; both tier-1 providers have failed and Groq is being invoked.
C29_Witness ==
    /\ variant = "orch" /\ registry = Providers
    /\ plan = <<"OpenAI", "Gemini", "Groq">>
    /\ opc = "invoking" /\ Len(olog) = 3
    /\ olog[1].outcome \in Failures /\ olog[2].outcome \in Failures
    /\ olog[3] = Invoke(Tier2)

\* C30: whatever the registry, the plan built by a call of
\* run_chain_with_fallback holds only registered providers, and it is empty
\* exactly when the registry is empty.
C30_PlanWithinRegistry ==
    PlanBuilt =>
        /\ \A i \in 1..Len(plan) : plan[i] \in registry
        /\ (plan = <<>>) <=> (registry = {})

\* C30 witness: a call with only OpenAI registered has built the plan
\* <<OpenAI>>.
C30_Witness ==
    /\ PlanBuilt /\ registry = {"OpenAI"} /\ plan = <<"OpenAI">>
    /\ opc = "invoking"

\* the invocations of the current call that have not returned or failed yet
InFlight == { i \in 1..Len(olog) : IsInvoke(olog[i]) /\ olog[i].outcome = "pending" }

\* C31: within one call of run_chain_with_fallback the providers are
\* attempted one after the other: at most one invocation is in flight, it is
\* the latest one, and every invocation but the first one was started after
\* the invocation before it had failed.
C31_StrictlySequential ==
    UsesAiService =>
        /\ Cardinality(InFlight) <= 1
        /\ \A i \in InFlight : i = Len(olog) /\ opc = "invoking"
        /\ \A i \in 2..Len(olog) :
               IsInvoke(olog[i]) =>
                   IsInvoke(olog[i - 1]) /\ olog[i - 1].outcome \in Failures

\* C31 witness: with three providers registered the second one is in flight
\* after the first one failed, and the third one has not been started.
C31_Witness ==
    /\ UsesAiService /\ Len(plan) = 3 /\ Len(olog) = 2
    /\ olog[1].outcome \in Failures
    /\ InFlight = {2}

\* the applications of a guardrail check made so far
GuardCalls(f) == { i \in 1..Len(fncalls) : fncalls[i].fn = f }

\* C32: detect_jailbreak blocks exactly when the classifier answered
\* is_jailbreak = true with a confidence_score above 0.8 (80 hundredths): a
\* score of exactly 0.8, an answer without a score and is_jailbreak = false
\* with any score are allowed.
C32_BlocksAboveThresholdOnly ==
    \A i \in GuardCalls("detect_jailbreak") :
        LET a == fncalls[i].arg.clf
        IN fncalls[i].ret.value <=>
               (~a.err /\ a.has_flag /\ a.is_jailbreak /\ a.has_score /\ a.score > 80)

\* C32 witness: the classifier answered is_jailbreak = true with a score of
\* exactly 0.8 and the text was allowed.
C32_Witness ==
    \E i \in GuardCalls("detect_jailbreak") :
        /\ fncalls[i].arg.clf.is_jailbreak
        /\ fncalls[i].arg.clf.has_score /\ fncalls[i].arg.clf.score = 80
        /\ ~fncalls[i].ret.value

\* C33: both checks fail open: when the classifier call or the moderation
\* call raised, or the classifier's answer could not be parsed, the check
\* returns "allow" and no exception reaches the caller.
C33_ChecksFailOpen ==
    /\ \A i \in GuardCalls("detect_jailbreak") :
           fncalls[i].arg.clf.err =>
               fncalls[i].ret.exc = "none" /\ ~fncalls[i].ret.value
    /\ \A i \in GuardCalls("check_toxicity") :
           fncalls[i].arg.mod.err =>
               fncalls[i].ret.exc = "none" /\ ~fncalls[i].ret.value

\* C33 witness: the classifier call failed on the network, the moderation
\* call failed too, and both checks have returned.
C33_Witness ==
    /\ \E i \in GuardCalls("detect_jailbreak") :
           fncalls[i].arg.clf.exc = "APIConnectionError"
    /\ \E i \in GuardCalls("check_toxicity") : fncalls[i].arg.mod.err

\* the text a log record carries
LoggedText(rec) ==
    IF "text_snippet" \in DOMAIN rec.extra THEN rec.extra.text_snippet
    ELSE IF "user_input" \in DOMAIN rec.extra THEN rec.extra.user_input
    ELSE <<>>

\* the record names what was blocked
HasCategory(rec) == "categories" \in DOMAIN rec.extra \/ "type" \in DOMAIN rec.extra

\* C34: when a check blocks a text, the warning it logs names the blocked
\* category and carries a snippet of at most 50 characters of the text, not
\* the whole text, however long the text is.
C34_BlockLogsSnippetOnly ==
    \A i \in 1..Len(fncalls) :
        fncalls[i].ret.value =>
            \E k \in 1..Len(fncalls[i].ret.log) :
                LET rec == fncalls[i].ret.log[k]
                IN /\ rec.level = "warning"
                   /\ HasCategory(rec)
                   /\ Len(LoggedText(rec)) <= 50
                   /\ Len(fncalls[i].arg.text) > 50 =>
                          LoggedText(rec) # fncalls[i].arg.text

\* a call of the orchestrator starts in this step of a skill-matching request
MatchCallStarts == variant = "match" /\ opc = "idle" /\ opc' # "idle"

HasResult == \E i \in 1..Len(events) : events[i].type = "result"

\* C35: a skill-matching request calls the orchestrator once: the call
\* starts only in the step after the second sleep, which is never taken
\* again; the resume text bound into the call's inputs has been through
\* redact_pii before the call starts (no piece of personal data is left in
\* it, a marker stands where one was); and the result line is in the stream
\* only when that call has been made and has returned.
C35_OneCallOnRedactedResume ==
    /\ [][MatchCallStarts =>
            /\ pc = "sleep2" /\ pc' = "ai" /\ olog = <<>>
            /\ ~Contains(inputs'["resume_text"], "pii")
            /\ Contains(req.resume_text, "pii") =>
                   Contains(inputs'["resume_text"], "[REDACTED]")]_vars
    /\ [][(variant = "match" /\ pc \in {"ai", "done"}) => pc' \in {"ai", "done"}]_vars
    /\ [](variant = "match" =>
            /\ pc \in {"start", "sleep1", "sleep2"} => (opc = "idle" /\ olog = <<>>)
            /\ pc = "ai" => (opc \in {"invoking", "returned"}
                             /\ ~Contains(inputs["resume_text"], "pii"))
            /\ HasResult => (pc = "done" /\ opc = "idle" /\ olog # <<>>
                             /\ step_name = "Skill Matcher"
                             /\ olog[Len(olog)].outcome = "ok"))

\* C35 witness: the resume of the request held a piece of personal data, the
\* call was made on the redacted text, a provider answered, and the result
\* line is out.
C35_Witness ==
    /\ variant = "match" /\ pc = "done" /\ HasResult
    /\ Contains(req.resume_text, "pii")
    /\ inputs["resume_text"] = <<"[REDACTED]", WORD>>
    /\ Len(olog) = 2 /\ olog[2].op = "invoke"

\* the current call has returned the static fallback
FallbackReturned ==
    /\ UsesAiService
    /\ \E i \in 1..Len(olog) : IsFallback(olog[i])

\* C38: run_chain_with_fallback returns the static fallback only when its
\* plan is empty or every provider of the plan was invoked and failed in
\* this call: at the fallback no provider of the plan is left unattempted,
\* none is in flight and none has succeeded.
C38_FallbackOnlyWhenExhausted ==
    FallbackReturned =>
        /\ IsFallback(olog[Len(olog)])
        /\ Len(olog) = Len(plan) + 1
        /\ \A i \in 1..Len(plan) : FailedAt(i)
        /\ plan = <<>> \/ AllFailed

\* C38 witness: a plan of two providers, both invoked and failed, then the
\* fallback of the Coach call.
C38_Witness ==
    /\ FallbackReturned /\ Len(plan) = 2 /\ Len(olog) = 3
    /\ step_name = "Coach Agent"
    /\ olog[1].outcome = "quota" /\ olog[2].outcome = "timeout"

\* C39: in one call every registered provider is invoked at most once: no
\* provider occurs twice among the invocations, failed or not, every invoked
\* provider is registered, and there are never more invocations than
\* registered providers, hence never more than three.
C39_EachProviderAtMostOnce ==
    UsesAiService =>
        /\ \A i, j \in 1..Len(Invocations) :
               i # j => Invocations[i].who # Invocations[j].who
        /\ \A i \in 1..Len(Invocations) : Invocations[i].who \in registry
        /\ Len(Invocations) <= Cardinality(registry)
        /\ Len(Invocations) <= 3

\* C39 witness: all three providers registered, each was invoked once and
\* failed, and the call has returned.
C39_Witness ==
    /\ UsesAiService /\ registry = Providers /\ opc \in {"returned", "idle"}
    /\ Len(Invocations) = 3
    /\ \A i \in 1..3 : Invocations[i].outcome \in Failures

\* the stream has yielded its result line or its error line
HasTerminal == \E i \in 1..Len(events) : Terminal(events[i])

\* C40: when every provider invocation and every skills lookup comes back,
\* every analyze or skill-matching stream that has started yields its
\* result line or its error line in the end, and every call of
\* run_chain_with_fallback that is under way returns.
C40_StreamsAndCallsTerminate ==
    /\ (variant \in {"analyze", "app_analyze", "match"} /\ events # <<>>) ~> HasTerminal
    /\ (UsesAiService /\ opc = "invoking") ~> (opc \in {"returned", "idle"})

\* C40 witness: an analyze stream whose two calls each went through three
\* failing providers has yielded its result line.
C40_Witness ==
    /\ variant = "analyze" /\ pc = "done" /\ opc = "idle"
    /\ loc.man_exhausted /\ Len(olog) = 4
    /\ events[Len(events)].type = "result"

----------------------------------------------------------------------------
(* Concurrent requests *)

\* the call of task t has built its plan
TaskPlanBuilt(t) == t.pc \in {"invoking", "returned", "done"}

\* the plan of t is made of the registry alone: every registered provider
\* once, nothing else, Groq last
PlanOfRegistry(t) ==
    /\ Len(t.plan) = Cardinality(registry)
    /\ { t.plan[i] : i \in 1..Len(t.plan) } = registry
    /\ Tier2 \in registry => t.plan[Len(t.plan)] = Tier2

\* what t's call has done and returned follows from t's own plan and the
\* outcomes of t's own invocations
ResultOfOwnLog(t) ==
    /\ \A i \in 1..Len(t.olog) : IsInvoke(t.olog[i]) => t.olog[i].who = t.plan[i]
    /\ t.pc \in {"returned", "done"} =>
           LET last == t.olog[Len(t.olog)]
           IN IF IsInvoke(last)
              THEN last.outcome = "ok" /\ t.result = last.text
              ELSE /\ \A i \in 1..Len(t.plan) : t.olog[i].outcome \in ConcFailures
                   /\ t.result = (IF t.step = "Skill Matcher"
                                  THEN <<LB, "fb_mk", "fb_mi", RB>>
                                  ELSE <<LB, "fb_mc", "fb_cc", "fb_ra", RB>>)

\* C36: however the steps of two requests interleave, no step changes the
\* registry or the prompt templates; a step changes the call of one request
\* only, so a shuffle or a failure in one call leaves the plan, the log and
\* the result of the other as they were; and each call's plan follows from
\* the registry, its result from its own invocations.
C36_CallsShareNothingMutable ==
    /\ [][registry' = registry /\ prompts' = prompts]_vars
    /\ [][\A r, s \in Reqs :
            (r # s /\ tasks'[s] # tasks[s]) => tasks'[r] = tasks[r]]_vars
    /\ [](\A r \in Reqs :
            TaskPlanBuilt(tasks[r]) =>
                PlanOfRegistry(tasks[r]) /\ ResultOfOwnLog(tasks[r]))

\* C36 witness: two calls under way at once on the full registry with
\* different shuffles; the first provider of r1 has failed while r2 still
\* waits for its first provider.
C36_Witness ==
    /\ registry = Providers
    /\ tasks["r1"].pc = "invoking" /\ tasks["r2"].pc = "invoking"
    /\ tasks["r1"].plan = <<"Gemini", "OpenAI", "Groq">>
    /\ tasks["r2"].plan = <<"OpenAI", "Gemini", "Groq">>
    /\ Len(tasks["r1"].olog) = 2 /\ tasks["r1"].olog[1].outcome = "timeout"
    /\ Len(tasks["r2"].olog) = 1

\* request s has a step the event loop could run
Runnable(s) ==
    \/ tasks[s].pc \in {"start", "invoking", "returned"}
    \/ tasks[s].pc \in {"sleep1", "sleep2"}

\* C37: in every pipeline the skills lookup runs off the event loop's
\* thread: while a request waits for its lookup the thread is free, and a
\* step of another request that is ready can be taken.
C37_LookupOffLoopThread ==
    \A r \in Reqs :
        tasks[r].pc = "lookup" =>
            /\ thread = "free"
            /\ \A s \in Reqs \ {r} :
                   Runnable(s) =>
                       ENABLED (\/ TaskBegins(s)
                                \/ TaskWakes(s)
                                \/ TaskProviderSucceeds(s)
                                \/ TaskResumes(s))

====
